---- MODULE Spec2Model ----
(***************************************************************************)
(* Model of the video-analysis-agent pipeline (video-analysis-agent/main.py *)
(* and video-analysis-agent/src/*.py): planning log parser, video analyzer, *)
(* output comparator and the deviation reporter's graph walk.               *)
(*                                                                          *)
(* Strings are sequences of one-character strings, so that split, strip,    *)
(* lower and substring search are computed as the code computes them.       *)
(* Floating point confidences are percentages (0.8 is 80) and timestamps    *)
(* are hundredths of a second.                                              *)
(***************************************************************************)
EXTENDS Integers, Sequences, FiniteSets, TLC

VARIABLES
    pc,                 \* position of main()
    error,              \* exception that ended main ("" while none)
    log_file,           \* the planning log file given to --planning-log
    video_input,        \* what --video resolves to
    output_file,        \* the file given to --test-output
    data,               \* PlanningLogParser.data
    planned_steps,      \* result of extract_steps
    video_analysis,     \* result of VideoAnalyzer.analyze
    test_result,        \* result of OutputComparator.get_result
    node,               \* next node of the compiled graph ("" outside a walk)
    state,              \* AnalysisState channels of the running walk
    supersteps,         \* nodes executed by the running walk
    call,               \* 1: generate_report called by main, 2: by format_markdown
    report,             \* report returned to main by generate_report
    md_report,          \* report rendered by format_markdown
    json_written,       \* deviation_report.json exists
    md_written,         \* deviation_report.md exists
    exit_code,          \* value returned by main (-1 while running)
    videos,             \* analyze: the files _get_video_files returned
    video_idx,          \* analyze: videos handled so far
    all_events,         \* analyze: all_events
    open_streams,       \* indices of the videos whose decode stream is open
    output_opened,      \* the comparator tried to open the result file
    llm,                \* DeviationReporter.llm: "none" without api_key
    order,              \* the order the three producers are called in
    md_rows             \* table rows of the written deviation_report.md

analyzerVars == <<videos, video_idx, all_events, open_streams>>

\* what VideoAnalyzer.analyze leaves alone
otherVars == <<error, log_file, video_input, output_file, data, planned_steps,
               test_result, node, state, supersteps, call, report, md_report,
               json_written, md_written, exit_code, output_opened, llm,
               order, md_rows>>

vars == <<pc, error, log_file, video_input, output_file, data, planned_steps,
          video_analysis, test_result, node, state, supersteps, call, report,
          md_report, json_written, md_written, exit_code, analyzerVars,
          output_opened, llm, order, md_rows>>

-----------------------------------------------------------------------------
(* Characters and strings *)

NL == "\n"
BS == "\\"
DQ == "\""
SQ == "'"

UpperLetters ==
    <<"A","B","C","D","E","F","G","H","I","J","K","L","M",
      "N","O","P","Q","R","S","T","U","V","W","X","Y","Z">>

LowerLetters ==
    <<"a","b","c","d","e","f","g","h","i","j","k","l","m",
      "n","o","p","q","r","s","t","u","v","w","x","y","z">>

Digits == {"0","1","2","3","4","5","6","7","8","9"}

Whitespace == {" ", NL, "\t", "\r"}

LowerChar(c) ==
    IF \E i \in 1..Len(UpperLetters) : UpperLetters[i] = c
    THEN LowerLetters[CHOOSE i \in 1..Len(UpperLetters) : UpperLetters[i] = c]
    ELSE c

\* str.lower()
Lower(s) == [i \in 1..Len(s) |-> LowerChar(s[i])]

\* kw in s
Contains(s, kw) ==
    \E i \in 1..(Len(s) - Len(kw) + 1) : SubSeq(s, i, i + Len(kw) - 1) = kw

StartsWith(s, p) == Len(s) >= Len(p) /\ SubSeq(s, 1, Len(p)) = p

\* str.lstrip(chars)
RECURSIVE LStrip(_, _)
LStrip(s, chars) ==
    IF s # <<>> /\ Head(s) \in chars THEN LStrip(Tail(s), chars) ELSE s

RECURSIVE RStrip(_, _)
RStrip(s, chars) ==
    IF s # <<>> /\ s[Len(s)] \in chars
    THEN RStrip(SubSeq(s, 1, Len(s) - 1), chars)
    ELSE s

\* str.strip()
Strip(s) == RStrip(LStrip(s, Whitespace), Whitespace)

\* str.split(sep) for a non-empty separator: the pieces between the
\* non-overlapping occurrences of sep, found left to right, empty ones kept
RECURSIVE SplitFrom(_, _, _)
SplitFrom(s, sep, acc) ==
    IF s = <<>> THEN <<acc>>
    ELSE IF StartsWith(s, sep)
         THEN <<acc>> \o SplitFrom(SubSeq(s, Len(sep) + 1, Len(s)), sep, <<>>)
         ELSE SplitFrom(Tail(s), sep, Append(acc, Head(s)))

Split(s, sep) == SplitFrom(s, sep, <<>>)

\* first index >= i of s holding a character of chars, Len(s) + 1 if none
RECURSIVE IndexOfAny(_, _, _)
IndexOfAny(s, chars, i) ==
    IF i > Len(s) THEN Len(s) + 1
    ELSE IF s[i] \in chars THEN i
    ELSE IndexOfAny(s, chars, i + 1)

-----------------------------------------------------------------------------
(* Planning log parser: planning_log_parser.py *)

KwNavigate   == <<"n","a","v","i","g","a","t","e">>
KwGoTo       == <<"g","o"," ","t","o">>
KwOpen       == <<"o","p","e","n">>
KwClick      == <<"c","l","i","c","k">>
KwSearchIcon == <<"s","e","a","r","c","h"," ","i","c","o","n">>
KwButton     == <<"b","u","t","t","o","n">>
KwEnter      == <<"e","n","t","e","r">>
KwType       == <<"t","y","p","e">>
KwInput      == <<"i","n","p","u","t">>
KwFilter     == <<"f","i","l","t","e","r">>
KwSelect     == <<"s","e","l","e","c","t">>
KwAssert     == <<"a","s","s","e","r","t">>
KwVerify     == <<"v","e","r","i","f","y">>
KwConfirm    == <<"c","o","n","f","i","r","m">>
KwShouldSee  == <<"s","h","o","u","l","d"," ","s","e","e">>

TargetSearchIcon == <<"S","e","a","r","c","h"," ","i","c","o","n">>

HttpPrefix  == <<"h","t","t","p",":","/","/">>
HttpsPrefix == <<"h","t","t","p","s",":","/","/">>

\* the separator of plan_text.split('\\n'): a backslash followed by n
PlanLineSeparator == <<BS, "n">>

\* the characters of line.lstrip('0123456789.-) ')
NumberingChars == Digits \cup {".", "-", ")", " "}

\* re.search(r'https?://[^\s]+', description): the matched text, <<>> if none
UrlMatchAt(s, i) ==
    LET rest == SubSeq(s, i, Len(s))
        plen == IF StartsWith(rest, HttpsPrefix) THEN Len(HttpsPrefix)
                ELSE IF StartsWith(rest, HttpPrefix) THEN Len(HttpPrefix)
                ELSE 0
        stop == IndexOfAny(s, Whitespace, i + plen)
    IN  IF plen > 0 /\ stop > i + plen THEN SubSeq(s, i, stop - 1) ELSE <<>>

UrlSearch(s) ==
    IF \E i \in 1..Len(s) : UrlMatchAt(s, i) # <<>>
    THEN UrlMatchAt(s, CHOOSE i \in 1..Len(s) :
                          /\ UrlMatchAt(s, i) # <<>>
                          /\ \A j \in 1..(i - 1) : UrlMatchAt(s, j) = <<>>)
    ELSE <<>>

\* re.search(r'"([^"]+)"|\'([^\']+)\'', description): group(1) or group(2),
\* <<>> if there is no match
QuoteMatchAt(s, i) ==
    IF s[i] \in {DQ, SQ}
    THEN LET close == IndexOfAny(s, {s[i]}, i + 1)
         IN  IF close <= Len(s) /\ close > i + 1
             THEN SubSeq(s, i + 1, close - 1)
             ELSE <<>>
    ELSE <<>>

QuoteSearch(s) ==
    IF \E i \in 1..Len(s) : QuoteMatchAt(s, i) # <<>>
    THEN QuoteMatchAt(s, CHOOSE i \in 1..Len(s) :
                            /\ QuoteMatchAt(s, i) # <<>>
                            /\ \A j \in 1..(i - 1) : QuoteMatchAt(s, j) = <<>>)
    ELSE <<>>

\* ActionType with the click test ahead of the navigate test
ActionType_ClickFirst(description) ==
    LET d == Lower(description)
    IN  IF Contains(d, KwClick)
        THEN "click"
        ELSE IF Contains(d, KwNavigate) \/ Contains(d, KwGoTo) \/ Contains(d, KwOpen)
        THEN "navigate"
        ELSE IF Contains(d, KwEnter) \/ Contains(d, KwType) \/ Contains(d, KwInput)
        THEN "enter_text"
        ELSE IF Contains(d, KwFilter) \/ Contains(d, KwSelect)
        THEN "filter"
        ELSE IF Contains(d, KwAssert) \/ Contains(d, KwVerify)
                \/ Contains(d, KwConfirm) \/ Contains(d, KwShouldSee)
        THEN "assert"
        ELSE "unknown"

\* the if/elif chain of _parse_step_description
ActionType(description) ==
    LET d == Lower(description)
    IN  IF Contains(d, KwNavigate) \/ Contains(d, KwGoTo) \/ Contains(d, KwOpen)
        THEN "navigate"
        ELSE IF Contains(d, KwClick)
        THEN "click"
        ELSE IF Contains(d, KwEnter) \/ Contains(d, KwType) \/ Contains(d, KwInput)
        THEN "enter_text"
        ELSE IF Contains(d, KwFilter) \/ Contains(d, KwSelect)
        THEN "filter"
        ELSE IF Contains(d, KwAssert) \/ Contains(d, KwVerify)
                \/ Contains(d, KwConfirm) \/ Contains(d, KwShouldSee)
        THEN "assert"
        ELSE "unknown"

Target(description) ==
    LET d == Lower(description)
        t == ActionType(description)
    IN  IF t = "navigate" THEN UrlSearch(description)
        ELSE IF t = "click"
        THEN IF Contains(d, KwSearchIcon) THEN TargetSearchIcon
             ELSE IF Contains(d, KwButton) THEN KwButton
             ELSE <<>>
        ELSE IF t \in {"enter_text", "filter"} THEN QuoteSearch(description)
        ELSE <<>>

\* _parse_step_description
ParseStepDescription(description, step_number) ==
    [step_number      |-> step_number,
     description      |-> description,
     action_type      |-> ActionType(description),
     target           |-> Target(description),
     expected_outcome |-> <<>>,
     is_next_action   |-> FALSE]

(* JSON values of the planning log.  An object is a function from its keys; *)
(* a field or content value is tagged with its JSON type.                   *)
JStr(s)  == [t |-> "str",  s |-> s,    n |-> 0, f |-> <<>>]
JNum(n)  == [t |-> "num",  s |-> <<>>, n |-> n, f |-> <<>>]
JNull    == [t |-> "null", s |-> <<>>, n |-> 0, f |-> <<>>]
JDict(f) == [t |-> "dict", s |-> <<>>, n |-> 0, f |-> f]

\* Python truth value of a JSON value
Truthy(v) ==
    IF v.t = "str" THEN v.s # <<>>
    ELSE IF v.t = "num" THEN v.n # 0
    ELSE IF v.t = "dict" THEN DOMAIN v.f # {}
    ELSE FALSE

\* the running values of extract_steps: steps, step_number, and whether an
\* AttributeError was raised (str method called on a value that is no str)
NoSteps == [steps |-> <<>>, step_number |-> 1, raised |-> FALSE]

\* steps.append(step); step_number += 1
AppendStep(acc, step) ==
    [acc EXCEPT !.steps = Append(@, step), !.step_number = @ + 1]

\* the body of `for line in plan_text.split('\\n')`
RECURSIVE PlanLines(_, _)
PlanLines(acc, lines) ==
    IF lines = <<>> THEN acc
    ELSE LET line    == Strip(Head(lines))
             cleaned == Strip(LStrip(line, NumberingChars))
         IN  IF /\ line # <<>>
                /\ (line[1] \in Digits \/ StartsWith(line, <<"-">>))
                /\ cleaned # <<>>
             THEN PlanLines(AppendStep(acc,
                               ParseStepDescription(cleaned, acc.step_number)),
                            Tail(lines))
             ELSE PlanLines(acc, Tail(lines))

\* `if isinstance(content, dict) and 'plan' in content`
PlanPart(acc, content) ==
    IF content.t = "dict" /\ "plan" \in DOMAIN content.f
    THEN IF content.f["plan"].t = "str"
         THEN PlanLines(acc, Split(content.f["plan"].s, PlanLineSeparator))
         ELSE [acc EXCEPT !.raised = TRUE]
    ELSE acc

\* `if isinstance(content, dict) and 'next_step' in content`
NextStepPart(acc, content) ==
    IF content.t = "dict" /\ "next_step" \in DOMAIN content.f
          /\ Truthy(content.f["next_step"])
    THEN IF content.f["next_step"].t = "str"
         THEN AppendStep(acc,
                  [ParseStepDescription(content.f["next_step"].s, acc.step_number)
                      EXCEPT !.is_next_action = TRUE])
         ELSE [acc EXCEPT !.raised = TRUE]
    ELSE acc

\* MessagePart reading next_step before plan
MessagePart_NextStepFirst(acc, message) ==
    IF /\ "role" \in DOMAIN message
       /\ message["role"] = "assistant"
       /\ "content" \in DOMAIN message
    THEN LET afterNext == NextStepPart(acc, message["content"])
         IN  IF afterNext.raised THEN afterNext
             ELSE PlanPart(afterNext, message["content"])
    ELSE acc

\* the body of `for message in self.data['planner_agent']`
MessagePart(acc, message) ==
    IF /\ "role" \in DOMAIN message
       /\ message["role"] = "assistant"
       /\ "content" \in DOMAIN message
    THEN LET afterPlan == PlanPart(acc, message["content"])
         IN  IF afterPlan.raised THEN afterPlan
             ELSE NextStepPart(afterPlan, message["content"])
    ELSE acc

RECURSIVE Messages(_, _)
Messages(acc, messages) ==
    IF messages = <<>> \/ acc.raised THEN acc
    ELSE Messages(MessagePart(acc, Head(messages)), Tail(messages))

\* extract_steps
ExtractSteps(d) ==
    IF "planner_agent" \in DOMAIN d
    THEN Messages(NoSteps, d["planner_agent"])
    ELSE NoSteps

-----------------------------------------------------------------------------
(* Video analyzer: video_analyzer.py.  A frame is its grey level 0..255, so *)
(* the mean absolute difference of two frames is the distance of their      *)
(* levels.                                                                  *)

\* `frame_skip` of config.get('frame_skip', 30)
DefaultFrameSkip == 30

\* `if change_score > 30`
ChangeThreshold == 30

VideoExtensions == {".webm", ".mp4", ".avi", ".mov"}

Abs(x) == IF x < 0 THEN -x ELSE x

Min(a, b) == IF a < b THEN a ELSE b

\* Timestamp cutting the quotient off after two decimals
Timestamp_Truncated(frame_idx, fps) ==
    IF fps > 0 THEN (100 * frame_idx) \div fps ELSE 0

\* round(frame_idx / fps, 2) if fps > 0 else 0, in hundredths of a second;
\* round() takes the nearest hundredth and the even one of two equally near
Timestamp(frame_idx, fps) ==
    IF fps > 0
    THEN LET q == (100 * frame_idx) \div fps
             r == (100 * frame_idx) % fps
         IN  IF 2 * r < fps THEN q
             ELSE IF 2 * r > fps THEN q + 1
             ELSE IF q % 2 = 0 THEN q ELSE q + 1
    ELSE 0

\* GetVideoFiles taking every file of a directory
GetVideoFiles_AnyFile(v) ==
    IF v.kind \in {"file", "dir"} THEN v.files ELSE <<>>

\* _get_video_files; suffixes are kept lowercased
GetVideoFiles(v) ==
    IF v.kind = "file" THEN v.files
    ELSE IF v.kind = "dir"
    THEN SelectSeq(v.files, LAMBDA f : f.suffix \in VideoExtensions)
    ELSE <<>>

SceneChange(video, frame_idx, change_score) ==
    [video       |-> video.name,
     timestamp   |-> Timestamp(frame_idx, video.fps),
     type        |-> "scene_change",
     description |-> "Significant UI change detected",
     confidence  |-> Min(change_score, 100)]

\* FrameLoop remembering every frame it reads, sampled or not
RECURSIVE FrameLoop_EveryFrame(_, _, _, _, _)
FrameLoop_EveryFrame(video, frame_skip, frame_idx, prev_frame, events) ==
    IF frame_idx >= Len(video.frames)
    THEN [events |-> events, raised |-> FALSE]
    ELSE IF video.raise_at = frame_idx \/ frame_skip = 0
    THEN [events |-> events, raised |-> TRUE]
    ELSE LET frame == video.frames[frame_idx + 1]
             score == Abs(frame - prev_frame)
         IN  FrameLoop_EveryFrame(video, frame_skip, frame_idx + 1, frame,
                 IF frame_idx % frame_skip = 0
                    /\ prev_frame # -1 /\ score > ChangeThreshold
                 THEN Append(events, SceneChange(video, frame_idx, score))
                 ELSE events)

\* the `while True` loop of _analyze_single_video; prev_frame is -1 for None.
\* An exception (a frame that cannot be read or diffed, frame_skip = 0) ends
\* the loop in the except clause with the events found so far.
RECURSIVE FrameLoop(_, _, _, _, _)
FrameLoop(video, frame_skip, frame_idx, prev_frame, events) ==
    IF frame_idx >= Len(video.frames)
    THEN [events |-> events, raised |-> FALSE]
    ELSE IF video.raise_at = frame_idx \/ frame_skip = 0
    THEN [events |-> events, raised |-> TRUE]
    ELSE LET frame == video.frames[frame_idx + 1]
             score == Abs(frame - prev_frame)
         IN  IF frame_idx % frame_skip = 0
             THEN FrameLoop(video, frame_skip, frame_idx + 1, frame,
                      IF prev_frame # -1 /\ score > ChangeThreshold
                      THEN Append(events, SceneChange(video, frame_idx, score))
                      ELSE events)
             ELSE FrameLoop(video, frame_skip, frame_idx + 1, prev_frame, events)

-----------------------------------------------------------------------------
(* Output comparator: output_comparator.py *)

KwFAILED == <<"F","A","I","L","E","D">>
KwPASSED == <<"P","A","S","S","E","D">>

\* str(e) of the exception ET.parse or open raises
MissingFileText == "No such file or directory"
ParseErrorText  == "not well-formed (invalid token)"

\* ExceptionText with an empty text for every exception
ExceptionText_Blank(file) == ""

\* str(e) in `except Exception as e`
ExceptionText(file) ==
    IF ~file.exists THEN MissingFileText ELSE ParseErrorText

\* ParseXml reporting a failure of any testcase of the document
ParseXml_AnyFailure(file) ==
    IF ~file.exists \/ ~file.well_formed
    THEN [status |-> "error", message |-> ExceptionText(file)]
    ELSE IF file.testcases # <<>>
    THEN LET testcase == file.testcases[1]
             failing  == {i \in 1..Len(file.testcases) :
                             file.testcases[i].failures # <<>>}
             failed   == failing # {}
             failure  == file.testcases[CHOOSE i \in failing :
                             \A k \in failing : i <= k].failures[1]
         IN  [status  |-> IF failed THEN "failed" ELSE "passed",
              name    |-> testcase.name,
              time    |-> testcase.time,
              message |-> IF failed /\ "message" \in DOMAIN failure
                          THEN failure["message"] ELSE ""]
    ELSE [status |-> "unknown"]

\* _parse_xml.  The document is the sequence of the testcase elements below
\* its root, in document order; a testcase holds its failure children, each
\* with its attributes (a function from attribute names).
ParseXml(file) ==
    IF ~file.exists \/ ~file.well_formed
    THEN [status |-> "error", message |-> ExceptionText(file)]
    ELSE IF file.testcases # <<>>
    THEN LET testcase == file.testcases[1]
             failed   == testcase.failures # <<>>
             failure  == testcase.failures[1]
         IN  [status  |-> IF failed THEN "failed" ELSE "passed",
              name    |-> testcase.name,
              time    |-> testcase.time,
              message |-> IF failed /\ "message" \in DOMAIN failure
                          THEN failure["message"] ELSE ""]
    ELSE [status |-> "unknown"]

\* ParseHtml looking for PASSED before FAILED
ParseHtml_PassedFirst(file) ==
    IF ~file.exists
    THEN [status |-> "error", message |-> ExceptionText(file)]
    ELSE [status |-> IF \E i \in 1..Len(file.texts) :
                            Contains(file.texts[i], KwPASSED)
                     THEN "passed"
                     ELSE IF \E i \in 1..Len(file.texts) :
                                 Contains(file.texts[i], KwFAILED)
                     THEN "failed"
                     ELSE "unknown",
          source |-> "html"]

\* _parse_html.  The document is the sequence of its text nodes.
ParseHtml(file) ==
    IF ~file.exists
    THEN [status |-> "error", message |-> ExceptionText(file)]
    ELSE [status |-> IF \E i \in 1..Len(file.texts) :
                            Contains(file.texts[i], KwFAILED)
                     THEN "failed"
                     ELSE IF \E i \in 1..Len(file.texts) :
                                 Contains(file.texts[i], KwPASSED)
                     THEN "passed"
                     ELSE "unknown",
          source |-> "html"]

\* ParseOutput reading every file that is not .xml as HTML
ParseOutput_HtmlByDefault(file) ==
    IF file.suffix = ".xml" THEN ParseXml(file) ELSE ParseHtml(file)

\* _parse_output
ParseOutput(file) ==
    IF file.suffix = ".xml" THEN ParseXml(file)
    ELSE IF file.suffix = ".html" THEN ParseHtml(file)
    ELSE [status |-> "unknown", message |-> "Unsupported format"]

\* OpensFile with every result file opened
OpensFile_Always(file) == TRUE

\* the result file is handed to ET.parse or open() only by _parse_xml and
\* _parse_html
OpensFile(file) == file.suffix \in {".xml", ".html"}

-----------------------------------------------------------------------------
(* Deviation reporter: deviation_reporter.py *)

\* config = {"recursion_limit": 100}
RecursionLimit == 100

\* the channels of AnalysisState annotated with operator.add
ReducerKeys == {"deviations", "observations"}

\* The graph applies a node's returned mapping to the state: a channel with
\* a reducer becomes reducer(old, returned), any other returned channel is
\* overwritten, a channel the node did not return keeps its value.
ApplyUpdate(st, upd) ==
    [k \in DOMAIN st |->
        IF k \in DOMAIN upd
        THEN IF k \in ReducerKeys THEN st[k] \o upd[k] ELSE upd[k]
        ELSE st[k]]

\* the mapping passed to self.graph.invoke, the same as _initialize_analysis
\* returns
InitialState ==
    [planned_steps      |-> planned_steps,
     video_events       |-> video_analysis.detected_events,
     test_result        |-> test_result,
     current_step_index |-> 0,
     deviations         |-> <<>>,
     observations       |-> <<>>,
     summary            |-> <<>>]

\* the channels before the input is written: lists with a reducer start empty
EmptyChannels ==
    [planned_steps      |-> <<>>,
     video_events       |-> <<>>,
     test_result        |-> <<>>,
     current_step_index |-> 0,
     deviations         |-> <<>>,
     observations       |-> <<>>,
     summary            |-> <<>>]

\* FindRelevantEvents keeping the last two scene changes
FindRelevantEvents_LastTwo(step, events) ==
    LET relevant == SelectSeq(events, LAMBDA e : e.type = "scene_change")
    IN  SubSeq(relevant, Len(relevant) - Min(2, Len(relevant)) + 1, Len(relevant))

\* _find_relevant_events: relevant[:2]
FindRelevantEvents(step, events) ==
    LET relevant == SelectSeq(events, LAMBDA e : e.type = "scene_change")
    IN  SubSeq(relevant, 1, Min(2, Len(relevant)))

\* what self.llm.invoke can answer
LlmTexts == {"The page is shown", "A button is pressed"}

\* _llm_analyze_step: "" without an LLM and when the call raises, else
\* response.content
LlmAnalyzeStep(l) ==
    IF l = "none" THEN {""} ELSE {""} \cup LlmTexts

\* current_step['llm_analysis'] = step_analysis, on planned_steps[idx]
Annotate(steps, idx, step_analysis) ==
    [steps EXCEPT ![idx + 1] = [llm_analysis |-> step_analysis] @@ @]

\* the value _analyze_step returns
AnalyzeStepUpdate(st) ==
    IF st.current_step_index >= Len(st.planned_steps)
    THEN st
    ELSE [current_step_index |-> st.current_step_index]

\* the value _compare_with_video returns
CompareWithVideoUpdate(st) ==
    LET current_step    == st.planned_steps[st.current_step_index + 1]
        relevant_events == FindRelevantEvents(current_step, st.video_events)
    IN  [observations |->
            <<[step_number     |-> current_step.step_number,
               description     |-> current_step.description,
               relevant_events |-> relevant_events,
               event_count     |-> Len(relevant_events)]>>]

\* DeviationRecord carrying every key of the step dict along
DeviationRecord_WholeStep(step) ==
    [step_number |-> step.step_number,
     description |-> step.description,
     result      |-> "Deviation",
     notes       |-> "Step not visibly executed in video",
     confidence  |-> 80] @@ step

DeviationRecord(step) ==
    [step_number |-> step.step_number,
     description |-> step.description,
     result      |-> "Deviation",
     notes       |-> "Step not visibly executed in video",
     confidence  |-> 80]

\* DetermineDeviationUpdate with the evidence test inverted
DetermineDeviationUpdate_Inverted(st) ==
    LET current_step == st.planned_steps[st.current_step_index + 1]
        latest       == st.observations[Len(st.observations)]
    IN  [deviations |->
            IF st.observations # <<>> /\ latest.event_count # 0
            THEN <<DeviationRecord(current_step)>>
            ELSE <<>>,
         current_step_index |-> st.current_step_index + 1]

\* the value _determine_deviation returns
DetermineDeviationUpdate(st) ==
    LET current_step == st.planned_steps[st.current_step_index + 1]
        latest       == st.observations[Len(st.observations)]
    IN  [deviations |->
            IF st.observations = <<>> \/ latest.event_count = 0
            THEN <<DeviationRecord(current_step)>>
            ELSE <<>>,
         current_step_index |-> st.current_step_index + 1]

\* _should_continue_analysis, on the state after analyze_step's update
ShouldContinueAnalysis(st) ==
    IF st.current_step_index >= Len(st.planned_steps)
    THEN "finalize" ELSE "compare"

\* FinalizeReportUpdate counting the observations that found an event
\* instead of subtracting
FinalizeReportUpdate_Counting(st) ==
    LET total_steps     == Len(st.planned_steps)
        deviation_count == Len(st.deviations)
    IN  [summary |->
            [total_steps     |-> total_steps,
             observed_steps  |-> Cardinality({i \in 1..Len(st.observations) :
                                     st.observations[i].event_count > 0}),
             deviation_count |-> deviation_count,
             status          |-> IF deviation_count = 0
                                 THEN <<"No deviations detected">>
                                 ELSE <<deviation_count, " deviation(s) found">>]]

\* the value _finalize_report returns
FinalizeReportUpdate(st) ==
    LET total_steps     == Len(st.planned_steps)
        deviation_count == Len(st.deviations)
    IN  [summary |->
            [total_steps     |-> total_steps,
             observed_steps  |-> total_steps - deviation_count,
             deviation_count |-> deviation_count,
             status          |-> IF deviation_count = 0
                                 THEN <<"No deviations detected">>
                                 ELSE <<deviation_count, " deviation(s) found">>]]

ObservedRecord(step) ==
    [step_number |-> step.step_number,
     description |-> step.description,
     result      |-> "Observed",
     notes       |-> "Evidence found in video",
     confidence  |-> 70]

\* StepResult taking the first deviation record whatever its step_number
StepResult_FirstDeviation(step, deviations) ==
    IF deviations # <<>> THEN deviations[1] ELSE ObservedRecord(step)

\* next((d for d in final_state["deviations"]
\*       if d["step_number"] == step["step_number"]), None), else the default
StepResult(step, deviations) ==
    IF \E i \in 1..Len(deviations) : deviations[i].step_number = step.step_number
    THEN deviations[CHOOSE i \in 1..Len(deviations) :
            /\ deviations[i].step_number = step.step_number
            /\ \A j \in 1..(i - 1) : deviations[j].step_number # step.step_number]
    ELSE ObservedRecord(step)

\* the summary lines of format_markdown: Total Steps, Observed Steps,
\* Deviations, Status
MarkdownSummary(r) ==
    <<r.summary.total_steps, r.summary.observed_steps,
      r.summary.deviation_count, r.summary.status>>

CR == "\r"

\* .replace('\n', ' ').replace('\r', ' ')
ReplaceNewlines(str) ==
    [i \in 1..Len(str) |-> IF str[i] \in {NL, CR} THEN " " ELSE str[i]]

\* description[:50]
DescriptionWidth == 50

\* the confidence cell: the indicator and f"{confidence:.0%}"
ConfidenceDisplay(confidence) ==
    IF confidence >= 80 THEN <<"green", confidence, "%">>
    ELSE IF confidence >= 60 THEN <<"yellow", confidence, "%">>
    ELSE IF confidence > 0 THEN <<"red", confidence, "%">>
    ELSE <<"white", "N/A">>

\* MarkdownRow keeping the whole description
MarkdownRow_Uncut(step) ==
    [step_number |-> step.step_number,
     description |-> ReplaceNewlines(step.description) \o <<".", ".", ".">>,
     result      |-> step.result,
     confidence  |-> ConfidenceDisplay(IF "confidence" \in DOMAIN step
                                       THEN step.confidence ELSE 0),
     notes       |-> step.notes]

\* one row of the table of format_markdown; step.get('confidence', 0.0)
MarkdownRow(step) ==
    LET description == SubSeq(ReplaceNewlines(step.description), 1,
                              Min(DescriptionWidth, Len(step.description)))
        confidence  == IF "confidence" \in DOMAIN step THEN step.confidence ELSE 0
    IN  [step_number |-> step.step_number,
         description |-> description \o <<".", ".", ".">>,
         result      |-> step.result,
         confidence  |-> ConfidenceDisplay(confidence),
         notes       |-> step.notes]

\* `for step in report['steps']`: one row each
MarkdownRows(r) == [i \in 1..Len(r.steps) |-> MarkdownRow(r.steps[i])]

\* BuildReport handing on the whole result of the analyzer
BuildReport_WholeAnalysis(final_state) ==
    [summary        |-> final_state.summary,
     steps          |-> [i \in 1..Len(planned_steps) |->
                            StepResult(planned_steps[i], final_state.deviations)],
     test_result    |-> test_result,
     video_analysis |-> video_analysis]

\* the report generate_report builds from the final state
BuildReport(final_state) ==
    [summary        |-> final_state.summary,
     steps          |-> [i \in 1..Len(planned_steps) |->
                            StepResult(planned_steps[i], final_state.deviations)],
     test_result    |-> test_result,
     video_analysis |-> [video_count  |-> video_analysis.video_count,
                         total_events |-> video_analysis.total_events]]

-----------------------------------------------------------------------------
(* Inputs of a run *)

\* words a step description is made of
MaxWords == 2

Fragments ==
    {<<"O","p","e","n">>,
     <<"C","L","I","C","K">>,
     <<"E","n","t","e","r">>,
     <<"s","e","l","e","c","t">>,
     <<"V","e","r","i","f","y">>,
     <<"g","o"," ","t","o">>,
     <<"s","h","o","u","l","d"," ","s","e","e">>,
     <<"P","r","o","t","o","t","y","p","e">>,
     <<"I","n","p","u","t">>,
     <<"f","i","l","t","e","r">>,
     <<"a","s","s","e","r","t">>,
     <<"C","o","n","f","i","r","m">>,
     <<"x","y","z">>,
     <<"t","h","e"," ","b","u","t","t","o","n">>,
     <<"s","e","a","r","c","h"," ","i","c","o","n">>,
     <<DQ,"C","h","u","c","k"," ","7","0",DQ>>,
     <<"h","t","t","p","s",":","/","/","e","x","a","m","p","l","e",".","c","o","m","/">>,
     <<"N","a","v","i","g","a","t","e">>}

RECURSIVE Phrases(_)
Phrases(n) ==
    IF n = 1 THEN Fragments
    ELSE Phrases(n - 1)
            \cup {p \o <<" ">> \o w : p \in Phrases(n - 1), w \in Fragments}

Descriptions == Phrases(MaxWords)

\* lines a plan text is made of, joined by a newline or by a backslash and n
MaxPlanLines == 2

PlanLineTexts ==
    {<<"1","."," ","O","p","e","n"," ","s","i","t","e">>,
     <<"-"," ","C","l","i","c","k"," ","t","h","e"," ","b","u","t","t","o","n">>,
     <<"2",")">>,
     <<"n","o","t","e">>}

RECURSIVE PlanTextsOf(_)
PlanTextsOf(n) ==
    IF n = 1 THEN PlanLineTexts
    ELSE PlanTextsOf(n - 1)
            \cup {p \o sep \o l : p \in PlanTextsOf(n - 1),
                                  sep \in {<<NL>>, PlanLineSeparator},
                                  l \in PlanLineTexts}

\* the plans written by ConverseFastRecorder._create_minimal_planning_log
RecorderPlan1 == <<"1","."," ","N","a","v","i","g","a","t","e",NL,"2","."," ","S","e","a","r","c","h"," ","C","h","u","c","k"," ","7","0">>
RecorderPlan2 == <<"S","e","a","r","c","h"," ","C","h","u","c","k"," ","7","0">>

PlanTexts == PlanTextsOf(MaxPlanLines) \cup {RecorderPlan1, RecorderPlan2, <<>>}

TextNavigate == <<"N","a","v","i","g","a","t","e">>
TextSearch   == <<"S","e","a","r","c","h">>

Assistant(content) ==
    [role |-> "assistant", content |-> content, name |-> "planner_agent"]

User(content) == [role |-> "user", content |-> content, name |-> "user"]

MessagePool ==
    {User(JStr(TextNavigate)),
     User(JDict([plan |-> JStr(RecorderPlan1), next_step |-> JStr(TextSearch)])),
     Assistant(JStr(TextNavigate)),
     [role |-> "assistant", name |-> "planner_agent"],
     Assistant(JDict([terminate |-> JStr(<<"n","o">>)])),
     Assistant(JDict([plan |-> JStr(RecorderPlan1), next_step |-> JStr(TextNavigate)])),
     Assistant(JDict([plan |-> JStr(RecorderPlan2), next_step |-> JStr(TextSearch)])),
     Assistant(JDict([plan |-> JNull])),
     Assistant(JDict([plan |-> JStr(RecorderPlan2), next_step |-> JNum(7)]))}
    \cup {Assistant(JDict([next_step |-> v])) :
             v \in {JStr(TextSearch), JStr(<<>>), JNull, JNum(0)}}

\* messages of a planning log
MaxMessages == 2

RECURSIVE MessageLists(_)
MessageLists(n) ==
    IF n = 0 THEN {<<>>}
    ELSE MessageLists(n - 1)
            \cup {Append(l, m) : l \in MessageLists(n - 1), m \in MessagePool}

\* a log of n assistant messages, each with one next_step
LongLogLen == 33

LongMessages(n) == [i \in 1..n |-> Assistant(JDict([next_step |-> JStr(TextSearch)]))]

\* a next_step text longer than a table cell shows, with a carriage return
LongDescription ==
    [i \in 1..(DescriptionWidth + 2) |->
        IF i = 5 THEN CR ELSE IF i % 6 = 0 THEN " " ELSE "e"]

LogFile(exists, valid_json, json) ==
    [exists |-> exists, valid_json |-> valid_json, json |-> json]

NoJson == [none |-> 0]

LogFiles ==
    {LogFile(FALSE, FALSE, NoJson), LogFile(TRUE, FALSE, NoJson),
     LogFile(TRUE, TRUE, [other_agent |-> <<>>])}
    \cup {LogFile(TRUE, TRUE, [planner_agent |-> l]) : l \in MessageLists(MaxMessages)}
    \cup {LogFile(TRUE, TRUE,
                  [planner_agent |-> <<Assistant(JDict([plan |-> JStr(p)]))>>]) :
             p \in PlanTexts}
    \cup {LogFile(TRUE, TRUE,
                  [planner_agent |-> <<Assistant(JDict([next_step |-> JStr(d)]))>>]) :
             d \in Descriptions}
    \cup {LogFile(TRUE, TRUE, [planner_agent |-> LongMessages(n)]) :
             n \in {LongLogLen - 1, LongLogLen}}
    \cup {LogFile(TRUE, TRUE,
                  [planner_agent |->
                      <<Assistant(JDict([next_step |-> JStr(LongDescription)]))>>])}

\* the log written by ConverseFastRecorder._create_minimal_planning_log
RecorderLog ==
    LogFile(TRUE, TRUE,
        [planner_agent |->
            <<User(JStr(TextNavigate)),
              Assistant(JDict([plan |-> JStr(RecorderPlan1),
                               next_step |-> JStr(TextNavigate)])),
              User(JStr(TextNavigate)),
              Assistant(JDict([plan |-> JStr(RecorderPlan2),
                               next_step |-> JStr(TextSearch)]))>>])

\* frames of a video and their grey levels
MaxFrames == 3

GreyLevels == {0, 20, 50, 255}

RECURSIVE FrameLists(_)
FrameLists(n) ==
    IF n = 0 THEN {<<>>}
    ELSE FrameLists(n - 1)
            \cup {Append(l, g) : l \in FrameLists(n - 1), g \in GreyLevels}

Video(name, suffix, opens, fps, frames, raise_at) ==
    [name |-> name, suffix |-> suffix, opens |-> opens, fps |-> fps,
     frames |-> frames, raise_at |-> raise_at]

VideoInput(kind, files, frame_skip) ==
    [kind |-> kind, files |-> files, frame_skip |-> frame_skip]

QuietVideo == Video("quiet.webm", ".webm", TRUE, 10, <<20, 20, 0>>, -1)
BusyVideo  == Video("busy.mp4", ".mp4", TRUE, 10, <<0, 255, 0>>, -1)
NotesFile  == Video("notes.txt", ".txt", TRUE, 10, <<0, 255>>, -1)
BadVideo   == Video("bad.avi", ".avi", FALSE, 0, <<>>, -1)
CrashVideo == Video("crash.mov", ".mov", TRUE, 10, <<0, 255, 0>>, 2)

\* frame rate, config frame_skip and the frame whose processing raises
Captures ==
    [fps : {0, 3, 10}, frame_skip : {1, 2}, raise_at : {-1}]
    \cup [fps : {10}, frame_skip : {0, DefaultFrameSkip}, raise_at : {-1}]
    \cup [fps : {10}, frame_skip : {1, 2}, raise_at : {1}]

QuietInput == VideoInput("file", <<QuietVideo>>, 1)
BusyInput  == VideoInput("file", <<BusyVideo>>, 1)

VideoInputs ==
    {VideoInput("none", <<>>, DefaultFrameSkip),
     VideoInput("dir", <<>>, 1),
     VideoInput("dir", <<NotesFile>>, 1),
     VideoInput("dir", <<BadVideo, BusyVideo>>, 1),
     VideoInput("dir", <<BusyVideo, NotesFile, QuietVideo, BusyVideo>>, 1),
     VideoInput("file", <<BadVideo>>, 1),
     VideoInput("file", <<NotesFile>>, 1),
     VideoInput("dir", <<CrashVideo, BusyVideo>>, 1),
     VideoInput("dir", <<CrashVideo, BadVideo, CrashVideo, QuietVideo>>, 1),
     VideoInput("dir", <<BusyVideo, QuietVideo>>, 0)}
    \cup {VideoInput("file",
                      <<Video("run.webm", ".webm", TRUE, c.fps, fr, c.raise_at)>>,
                      c.frame_skip) :
             fr \in FrameLists(MaxFrames), c \in Captures}

Testcase(name, time, failures) ==
    [name |-> name, time |-> time, failures |-> failures]

OutputFile(suffix, exists, well_formed, testcases, texts) ==
    [suffix |-> suffix, exists |-> exists, well_formed |-> well_formed,
     testcases |-> testcases, texts |-> texts]

\* the result written by ConverseFastRecorder._create_minimal_test_result
PassedXml ==
    OutputFile(".xml", TRUE, TRUE,
               <<Testcase("Search for Chuck 70 on Converse India", "90.0", <<>>)>>,
               <<>>)

TextPassed == <<"T","e","s","t"," ","P","A","S","S","E","D">>
TextFailed == <<"1"," ","F","A","I","L","E","D">>
TextOther  == <<"P","a","s","s","e","d">>
TextBoth   == <<"2"," ","P","A","S","S","E","D",","," ","1"," ","F","A","I","L","E","D">>

OutputFiles ==
    {PassedXml,
     OutputFile(".xml", FALSE, FALSE, <<>>, <<>>),
     OutputFile(".xml", TRUE, FALSE, <<>>, <<>>),
     OutputFile(".xml", TRUE, TRUE, <<>>, <<>>),
     OutputFile(".xml", TRUE, TRUE,
                <<Testcase("a", "1.0", <<[message |-> "boom"]>>),
                  Testcase("b", "2.0", <<>>)>>, <<>>),
     OutputFile(".xml", TRUE, TRUE,
                <<Testcase("a", "1.0", <<>>),
                  Testcase("b", "2.0", <<[message |-> "boom"]>>)>>, <<>>),
     OutputFile(".xml", TRUE, TRUE,
                <<Testcase("a", "1.0", <<[type |-> "AssertionError"],
                                         [message |-> "second"]>>)>>, <<>>),
     OutputFile(".html", FALSE, FALSE, <<>>, <<>>),
     OutputFile(".txt", TRUE, FALSE, <<>>, <<TextFailed>>),
     OutputFile("", FALSE, FALSE, <<>>, <<>>)}
    \cup {OutputFile(".html", TRUE, FALSE, <<>>, t) :
             t \in {<<>>, <<TextPassed>>, <<TextFailed>>, <<TextOther>>,
                    <<TextPassed, TextFailed>>, <<TextFailed, TextPassed>>,
                    <<TextBoth>>, <<TextOther, TextPassed>>}}

-----------------------------------------------------------------------------
(* main() of video-analysis-agent/main.py *)

NoData == [none |-> 0]

NoAnalysis == [video_count |-> 0, detected_events |-> <<>>, total_events |-> 0]

NoResult == [status |-> ""]

NoReport == [none |-> 0]

\* main() calls the planning log parser, the video analyzer and the output
\* comparator in this order
MainOrder == <<"parser", "analyzer", "comparator">>

\* where each producer begins
Entry(stage) ==
    IF stage = "parser" THEN "load_log"
    ELSE IF stage = "analyzer" THEN "analyze_video"
    ELSE "compare_output"

\* where control goes when a producer has returned: to the next producer,
\* and after the last one to DeviationReporter
After(stage) ==
    LET i == CHOOSE k \in 1..Len(order) : order[k] = stage
    IN  IF i = Len(order) THEN "generate_report" ELSE Entry(order[i + 1])

\* the state when main() starts
Start ==
    /\ pc = Entry(order[1])
    /\ md_rows = <<>>
    /\ error = ""
    /\ data = NoData
    /\ planned_steps = <<>>
    /\ video_analysis = NoAnalysis
    /\ test_result = NoResult
    /\ node = ""
    /\ state = EmptyChannels
    /\ supersteps = 0
    /\ call = 0
    /\ report = NoReport
    /\ md_report = NoReport
    /\ json_written = FALSE
    /\ md_written = FALSE
    /\ exit_code = -1
    /\ videos = <<>>
    /\ video_idx = 0
    /\ all_events = <<>>
    /\ open_streams = {}
    /\ output_opened = FALSE

\* main() builds DeviationReporter(planned_steps, video_analysis,
\* test_result) without api_key, so self.llm is None
Init ==
    /\ \/ /\ log_file \in LogFiles
          /\ video_input \in {QuietInput, BusyInput}
          /\ output_file = PassedXml
       \/ /\ log_file = RecorderLog
          /\ video_input \in VideoInputs
          /\ output_file = PassedXml
       \/ /\ log_file = RecorderLog
          /\ video_input \in {QuietInput, BusyInput}
          /\ output_file \in OutputFiles
    /\ llm = "none"
    /\ order = MainOrder
    /\ Start

\* an exception nothing catches ends the process with exit status 1
Abort(e) ==
    /\ pc' = "aborted"
    /\ error' = e
    /\ exit_code' = 1

\* LoadLog substituting an empty log for a file it cannot load
LoadLog_EmptyDefault ==
    /\ pc = "load_log"
    /\ data' = IF ~log_file.exists \/ ~log_file.valid_json
               THEN [other_agent |-> <<>>] ELSE log_file.json
    /\ pc' = "extract_steps"
    /\ UNCHANGED <<error, exit_code>>
    /\ UNCHANGED <<log_file, video_input, output_file, planned_steps,
                   video_analysis, test_result, node, state, supersteps, call,
                   report, md_report, json_written, md_written>>
    /\ UNCHANGED <<analyzerVars, output_opened, llm, order, md_rows>>

\* PlanningLogParser(args.planning_log): __init__ and _load_log
LoadLog ==
    /\ pc = "load_log"
    /\ IF ~log_file.exists
       THEN Abort("FileNotFoundError") /\ UNCHANGED data
       ELSE IF ~log_file.valid_json
       THEN Abort("JSONDecodeError") /\ UNCHANGED data
       ELSE /\ data' = log_file.json
            /\ pc' = "extract_steps"
            /\ UNCHANGED <<error, exit_code>>
    /\ UNCHANGED <<log_file, video_input, output_file, planned_steps,
                   video_analysis, test_result, node, state, supersteps, call,
                   report, md_report, json_written, md_written>>
    /\ UNCHANGED <<analyzerVars, output_opened, llm, order, md_rows>>

\* planned_steps = log_parser.extract_steps()
ExtractStepsCall ==
    /\ pc = "extract_steps"
    /\ LET r == ExtractSteps(data)
       IN  IF r.raised
           THEN Abort("AttributeError") /\ UNCHANGED planned_steps
           ELSE /\ planned_steps' = r.steps
                /\ pc' = After("parser")
                /\ UNCHANGED <<error, exit_code>>
    /\ UNCHANGED <<log_file, video_input, output_file, data, video_analysis,
                   test_result, node, state, supersteps, call, report,
                   md_report, json_written, md_written>>
    /\ UNCHANGED <<analyzerVars, output_opened, llm, order, md_rows>>

\* VideoAnalyzer(args.video, config=config).analyze():
\* videos = self._get_video_files(); all_events = []
AnalyzeVideo ==
    /\ pc = "analyze_video"
    /\ videos' = GetVideoFiles(video_input)
    /\ video_idx' = 0
    /\ all_events' = <<>>
    /\ pc' = "next_video"
    /\ UNCHANGED <<open_streams, video_analysis>>
    /\ UNCHANGED otherVars

\* `for video_file in videos`: cap = cv2.VideoCapture(str(video_file)); a
\* video that does not open returns no events
OpenVideo ==
    /\ pc = "next_video"
    /\ video_idx < Len(videos)
    /\ IF videos[video_idx + 1].opens
       THEN /\ open_streams' = open_streams \cup {video_idx + 1}
            /\ pc' = "read_frames"
            /\ UNCHANGED video_idx
       ELSE /\ video_idx' = video_idx + 1
            /\ UNCHANGED <<open_streams, pc>>
    /\ UNCHANGED <<videos, all_events, video_analysis>>
    /\ UNCHANGED otherVars

\* ReadFrames leaving analyze at the first video that raises
ReadFrames_StopAtError ==
    /\ pc = "read_frames"
    /\ LET r == FrameLoop(videos[video_idx + 1], video_input.frame_skip,
                          0, -1, <<>>)
       IN  /\ all_events' = all_events \o r.events
           /\ open_streams' = IF r.raised THEN open_streams
                              ELSE open_streams \ {video_idx + 1}
           /\ video_idx' = IF r.raised THEN Len(videos) ELSE video_idx + 1
    /\ pc' = "next_video"
    /\ UNCHANGED <<videos, video_analysis>>
    /\ UNCHANGED otherVars

\* ReadFrames putting the events of a video before those of the videos
\* analysed earlier
ReadFrames_Prepend ==
    /\ pc = "read_frames"
    /\ LET r == FrameLoop(videos[video_idx + 1], video_input.frame_skip,
                          0, -1, <<>>)
       IN  /\ all_events' = r.events \o all_events
           /\ open_streams' = IF r.raised THEN open_streams
                              ELSE open_streams \ {video_idx + 1}
    /\ video_idx' = video_idx + 1
    /\ pc' = "next_video"
    /\ UNCHANGED <<videos, video_analysis>>
    /\ UNCHANGED otherVars

\* the frame loop of one video, then all_events.extend(events).
\* cap.release() follows the loop inside the try block: an exception in the
\* loop goes to the except clause and the stream is not released.
ReadFrames ==
    /\ pc = "read_frames"
    /\ LET r == FrameLoop(videos[video_idx + 1], video_input.frame_skip,
                          0, -1, <<>>)
       IN  /\ all_events' = all_events \o r.events
           /\ open_streams' = IF r.raised THEN open_streams
                              ELSE open_streams \ {video_idx + 1}
    /\ video_idx' = video_idx + 1
    /\ pc' = "next_video"
    /\ UNCHANGED <<videos, video_analysis>>
    /\ UNCHANGED otherVars

\* a stream _analyze_single_video returned without releasing is closed only
\* when the runtime finalizes its VideoCapture object, at a moment the code
\* does not choose
FinalizeCapture ==
    /\ \E i \in open_streams :
          /\ i <= video_idx
          /\ open_streams' = open_streams \ {i}
    /\ UNCHANGED <<pc, videos, video_idx, all_events, video_analysis>>
    /\ UNCHANGED otherVars

\* analyze returns video_count, detected_events and total_events
AnalyzeReturn ==
    /\ pc = "next_video"
    /\ video_idx >= Len(videos)
    /\ video_analysis' = [video_count     |-> Len(videos),
                          detected_events |-> all_events,
                          total_events    |-> Len(all_events)]
    /\ pc' = After("analyzer")
    /\ UNCHANGED analyzerVars
    /\ UNCHANGED otherVars

\* CompareOutput resetting the analysis of the videos as it goes
CompareOutput_SharedState ==
    /\ pc = "compare_output"
    /\ test_result' = ParseOutput(output_file)
    /\ output_opened' = OpensFile(output_file)
    /\ video_analysis' = NoAnalysis
    /\ pc' = After("comparator")
    /\ call' = 1
    /\ UNCHANGED <<error, log_file, video_input, output_file, data,
                   planned_steps, node, state, supersteps,
                   report, md_report, json_written, md_written, exit_code>>
    /\ UNCHANGED <<analyzerVars, llm, order, md_rows>>

\* test_result = OutputComparator(args.test_output).get_result()
CompareOutput ==
    /\ pc = "compare_output"
    /\ test_result' = ParseOutput(output_file)
    /\ output_opened' = OpensFile(output_file)
    /\ pc' = After("comparator")
    /\ call' = 1
    /\ UNCHANGED <<error, log_file, video_input, output_file, data,
                   planned_steps, video_analysis, node, state, supersteps,
                   report, md_report, json_written, md_written, exit_code>>
    /\ UNCHANGED <<analyzerVars, llm, order, md_rows>>

\* GraphInvoke writing the input onto the channels of the walk before
GraphInvoke_KeepState ==
    /\ pc = "generate_report"
    /\ state' = ApplyUpdate(state, InitialState)
    /\ node' = "initialize"
    /\ supersteps' = 0
    /\ pc' = "walk"
    /\ UNCHANGED <<error, log_file, video_input, output_file, data,
                   planned_steps, video_analysis, test_result, call, report,
                   md_report, json_written, md_written, exit_code>>
    /\ UNCHANGED <<analyzerVars, output_opened, llm, order, md_rows>>

\* generate_report: self.graph.invoke(...) writes the input to the channels
\* and schedules the entry point
GraphInvoke ==
    /\ pc = "generate_report"
    /\ state' = ApplyUpdate(EmptyChannels, InitialState)
    /\ node' = "initialize"
    /\ supersteps' = 0
    /\ pc' = "walk"
    /\ UNCHANGED <<error, log_file, video_input, output_file, data,
                   planned_steps, video_analysis, test_result, call, report,
                   md_report, json_written, md_written, exit_code>>
    /\ UNCHANGED <<analyzerVars, output_opened, llm, order, md_rows>>

\* one superstep: the node runs, its update is applied, the edge is followed
RunNode(n, upd, next) ==
    /\ pc = "walk"
    /\ node = n
    /\ supersteps < RecursionLimit
    /\ state' = ApplyUpdate(state, upd)
    /\ node' = next
    /\ supersteps' = supersteps + 1
    /\ UNCHANGED <<pc, error, log_file, video_input, output_file, data,
                   planned_steps, video_analysis, test_result, call, report,
                   md_report, json_written, md_written, exit_code>>
    /\ UNCHANGED <<analyzerVars, output_opened, llm, order, md_rows>>

Initialize == RunNode("initialize", InitialState, "analyze_step")

\* _analyze_step.  With an LLM, current_step['llm_analysis'] = step_analysis
\* writes into the step dict, which state["planned_steps"] and
\* self.planned_steps both hold.
AnalyzeStep ==
    /\ pc = "walk"
    /\ node = "analyze_step"
    /\ supersteps < RecursionLimit
    /\ \E step_analysis \in LlmAnalyzeStep(llm) :
          LET idx       == state.current_step_index
              annotates == llm # "none" /\ idx < Len(state.planned_steps)
              st        == IF annotates
                           THEN [state EXCEPT !.planned_steps =
                                    Annotate(@, idx, step_analysis)]
                           ELSE state
          IN  /\ state' = ApplyUpdate(st, AnalyzeStepUpdate(st))
              /\ planned_steps' = IF annotates
                                  THEN Annotate(planned_steps, idx, step_analysis)
                                  ELSE planned_steps
              /\ node' = IF ShouldContinueAnalysis(
                               ApplyUpdate(st, AnalyzeStepUpdate(st))) = "compare"
                         THEN "compare_with_video" ELSE "finalize_report"
    /\ supersteps' = supersteps + 1
    /\ UNCHANGED <<pc, error, log_file, video_input, output_file, data,
                   video_analysis, test_result, call, report, md_report,
                   json_written, md_written, exit_code>>
    /\ UNCHANGED <<analyzerVars, output_opened, llm, order, md_rows>>

CompareWithVideo ==
    RunNode("compare_with_video", CompareWithVideoUpdate(state),
            "determine_deviation")

DetermineDeviation ==
    RunNode("determine_deviation", DetermineDeviationUpdate(state),
            "analyze_step")

FinalizeReport ==
    RunNode("finalize_report", FinalizeReportUpdate(state), "END")

\* the walk has used recursion_limit supersteps and a node is still scheduled
GraphRecursionError ==
    /\ pc = "walk"
    /\ node \notin {"", "END"}
    /\ supersteps >= RecursionLimit
    /\ Abort("GraphRecursionError")
    /\ node' = ""
    /\ UNCHANGED <<log_file, video_input, output_file, data, planned_steps,
                   video_analysis, test_result, state, supersteps, call,
                   report, md_report, json_written, md_written>>
    /\ UNCHANGED <<analyzerVars, output_opened, llm, order, md_rows>>

\* generate_report returns: to main (call 1) or to format_markdown (call 2)
ReturnReport ==
    /\ pc = "walk"
    /\ node = "END"
    /\ node' = ""
    /\ IF call = 1
       THEN /\ report' = BuildReport(state)
            /\ pc' = "write_json"
            /\ UNCHANGED md_report
       ELSE /\ md_report' = BuildReport(state)
            /\ pc' = "write_md"
            /\ UNCHANGED report
    /\ UNCHANGED <<error, log_file, video_input, output_file, data,
                   planned_steps, video_analysis, test_result, state,
                   supersteps, call, json_written, md_written, exit_code>>
    /\ UNCHANGED <<analyzerVars, output_opened, llm, order, md_rows>>

\* json.dump(report, f); then reporter.format_markdown() calls generate_report
WriteJson ==
    /\ pc = "write_json"
    /\ json_written' = TRUE
    /\ call' = 2
    /\ pc' = "generate_report"
    /\ UNCHANGED <<error, log_file, video_input, output_file, data,
                   planned_steps, video_analysis, test_result, node, state,
                   supersteps, report, md_report, md_written, exit_code>>
    /\ UNCHANGED <<analyzerVars, output_opened, llm, order, md_rows>>

\* f.write(reporter.format_markdown())
WriteMarkdown ==
    /\ pc = "write_md"
    /\ md_written' = TRUE
    /\ md_rows' = MarkdownRows(md_report)
    /\ pc' = "return"
    /\ UNCHANGED <<error, log_file, video_input, output_file, data,
                   planned_steps, video_analysis, test_result, node, state,
                   supersteps, call, report, md_report, json_written, exit_code>>
    /\ UNCHANGED <<analyzerVars, output_opened, llm, order>>

\* ExitCode deciding on observed_steps
ExitCode_ByObserved(r) == IF r.summary.observed_steps > 0 THEN 0 ELSE 1

\* return 0 if report['summary']['deviation_count'] == 0 else 1
ExitCode(r) == IF r.summary.deviation_count = 0 THEN 0 ELSE 1

Return ==
    /\ pc = "return"
    /\ exit_code' = ExitCode(report)
    /\ pc' = "exited"
    /\ UNCHANGED <<error, log_file, video_input, output_file, data,
                   planned_steps, video_analysis, test_result, node, state,
                   supersteps, call, report, md_report, json_written, md_written>>
    /\ UNCHANGED <<analyzerVars, output_opened, llm, order, md_rows>>

Next ==
    \/ LoadLog
    \/ ExtractStepsCall
    \/ AnalyzeVideo
    \/ OpenVideo
    \/ ReadFrames
    \/ FinalizeCapture
    \/ AnalyzeReturn
    \/ CompareOutput
    \/ GraphInvoke
    \/ Initialize
    \/ AnalyzeStep
    \/ CompareWithVideo
    \/ DetermineDeviation
    \/ FinalizeReport
    \/ GraphRecursionError
    \/ ReturnReport
    \/ WriteJson
    \/ WriteMarkdown
    \/ Return

Spec == Init /\ [][Next]_vars

\* planning logs of the runs with an LLM
LlmLogFiles ==
    {RecorderLog,
     LogFile(TRUE, TRUE, [other_agent |-> <<>>]),
     LogFile(TRUE, TRUE, [planner_agent |-> LongMessages(2)])}

\* DeviationReporter(planned_steps, video_analysis, test_result, api_key):
\* the runs of Init, and runs whose reporter is given an api_key
InitLLM ==
    /\ \/ /\ log_file \in {RecorderLog, LogFile(FALSE, FALSE, NoJson),
                            LogFile(TRUE, TRUE, [planner_agent |-> LongMessages(LongLogLen)])}
          /\ video_input \in {QuietInput, BusyInput}
          /\ output_file = PassedXml
          /\ llm = "none"
       \/ /\ log_file = RecorderLog
          /\ video_input \in VideoInputs
          /\ output_file = PassedXml
          /\ llm = "none"
       \/ /\ log_file \in LlmLogFiles
          /\ video_input \in {QuietInput, BusyInput}
          /\ output_file = PassedXml
          /\ llm \in {"none", "anthropic"}
    /\ order = MainOrder
    /\ Start

SpecLLM == InitLLM /\ [][Next]_vars

Stages == {"parser", "analyzer", "comparator"}

\* the orders the three producers can be called in
Orders ==
    {o \in [1..3 -> Stages] : \A i, j \in 1..3 : o[i] = o[j] => i = j}

\* a caller that constructs PlanningLogParser, VideoAnalyzer and
\* OutputComparator in any order before it builds the reporter
InitAnyOrder ==
    /\ log_file \in {RecorderLog, LogFile(TRUE, FALSE, NoJson),
                     LogFile(TRUE, TRUE, [planner_agent |-> LongMessages(LongLogLen)]),
                     LogFile(TRUE, TRUE,
                             [planner_agent |-> <<Assistant(JDict([plan |-> JNull]))>>])}
    /\ video_input \in {QuietInput, BusyInput,
                        VideoInput("file", <<BadVideo>>, 1),
                        VideoInput("dir", <<CrashVideo, BusyVideo>>, 1)}
    /\ output_file \in {PassedXml,
                        OutputFile(".xml", TRUE, FALSE, <<>>, <<>>),
                        OutputFile(".html", TRUE, FALSE, <<>>, <<TextFailed>>),
                        OutputFile(".txt", TRUE, FALSE, <<>>, <<TextFailed>>)}
    /\ llm = "none"
    /\ order \in Orders
    /\ Start

SpecAnyOrder == InitAnyOrder /\ [][Next]_vars

-----------------------------------------------------------------------------
(* Properties *)

\* the reports generate_report has returned so far in this run
ReturnedReports == {r \in {report, md_report} : "summary" \in DOMAIN r}

DeviationSteps(r) == {i \in 1..Len(r.steps) : r.steps[i].result = "Deviation"}

\* C1: in every report generate_report returns, observed_steps +
\* deviation_count = total_steps, and total_steps is the number of planned
\* steps.
C1_SummaryAddsUp ==
    \A r \in ReturnedReports :
        /\ r.summary.observed_steps + r.summary.deviation_count
              = r.summary.total_steps
        /\ r.summary.total_steps = Len(planned_steps)

C1_Witness ==
    /\ pc = "exited"
    /\ Len(planned_steps) >= 2
    /\ report.summary.deviation_count > 0

\* C2: in every report, deviation_count is the number of entries of
\* report.steps whose result is Deviation (one record per deviating step in
\* the deviations accumulator, no duplicates).
C2_DeviationCountIsDeviationSteps ==
    \A r \in ReturnedReports :
        r.summary.deviation_count = Cardinality(DeviationSteps(r))

\* C3: in the report a step with zero matched scene_change events is
\* Deviation with confidence 0.8 and the note "Step not visibly executed in
\* video", a step with one or more is Observed with confidence 0.7; and the
\* two walks of one run, over the same steps and events, give the same
\* outcomes.
SceneChangeCount(events) ==
    Cardinality({j \in 1..Len(events) : events[j].type = "scene_change"})

C3_OutcomeByMatchedEvents ==
    /\ \A r \in ReturnedReports : \A i \in 1..Len(planned_steps) :
          IF SceneChangeCount(video_analysis.detected_events) = 0
          THEN /\ r.steps[i].result = "Deviation"
               /\ r.steps[i].confidence = 80
               /\ r.steps[i].notes = "Step not visibly executed in video"
          ELSE /\ r.steps[i].result = "Observed"
               /\ r.steps[i].confidence = 70
    /\ "summary" \in DOMAIN md_report => md_report.steps = report.steps

C3_Witness ==
    /\ "summary" \in DOMAIN md_report
    /\ Len(planned_steps) >= 2
    /\ report.steps[2].result = "Deviation"

\* C4: report.steps has exactly one outcome per planned step, in the order
\* of the planned steps, the i-th carrying the step_number and description
\* of the i-th planned step.
C4_OneOutcomePerStep ==
    \A r \in ReturnedReports :
        /\ Len(r.steps) = Len(planned_steps)
        /\ \A i \in 1..Len(planned_steps) :
              /\ r.steps[i].step_number = planned_steps[i].step_number
              /\ r.steps[i].description = planned_steps[i].description

C4_Witness ==
    /\ pc = "write_json"
    /\ Len(report.steps) >= 3
    /\ report.steps[3].result = "Deviation"
    /\ report.steps[3].description # report.steps[1].description

\* C5: for a list of planned steps of any length the walk reaches
\* finalize_report with current_step_index equal to the number of planned
\* steps and ends with a finalized summary, without hitting the recursion
\* limit of 100.
C5_WalkEndsWithoutRecursionError ==
    /\ error # "GraphRecursionError"
    /\ node = "END" =>
          /\ state.current_step_index = Len(planned_steps)
          /\ "total_steps" \in DOMAIN state.summary

\* C6: the exit code main returns is 0 exactly when the report's
\* deviation_count is 0 and 1 otherwise, and it is decided only after both
\* report files have been written.
C6_ExitCodeAfterBothFiles ==
    pc = "exited" =>
        /\ exit_code = 0 <=> report.summary.deviation_count = 0
        /\ exit_code # 0 => exit_code = 1
        /\ json_written /\ md_written

C6_Witness ==
    /\ pc = "exited"
    /\ exit_code = 1
    /\ report.summary.deviation_count > 0

\* lines of a plan text, separated by newline characters, that start with a
\* digit or a dash and have a text after their numbering
ListItemLines(plan_text) ==
    LET lines == Split(plan_text, <<NL>>)
    IN  Cardinality({i \in 1..Len(lines) :
            LET line == Strip(lines[i])
            IN  /\ line # <<>>
                /\ (line[1] \in Digits \/ line[1] = "-")
                /\ Strip(LStrip(line, NumberingChars)) # <<>>})

IsAssistantDict(m) ==
    /\ "role" \in DOMAIN m /\ m["role"] = "assistant"
    /\ "content" \in DOMAIN m /\ m["content"].t = "dict"

RECURSIVE SumOver(_, _)
SumOver(count(_), messages) ==
    IF messages = <<>> THEN 0
    ELSE count(Head(messages)) + SumOver(count, Tail(messages))

PlanLineCount(m) ==
    IF IsAssistantDict(m) /\ "plan" \in DOMAIN m["content"].f
          /\ m["content"].f["plan"].t = "str"
    THEN ListItemLines(m["content"].f["plan"].s)
    ELSE 0

NextStepCount(m) ==
    IF IsAssistantDict(m) /\ "next_step" \in DOMAIN m["content"].f
          /\ m["content"].f["next_step"].t = "str"
          /\ m["content"].f["next_step"].s # <<>>
    THEN 1 ELSE 0

StepsExtracted == pc \notin {"load_log", "extract_steps", "aborted"} \/ call > 0

\* C7: for a log with N list-item lines in the plan fields of its assistant
\* messages (lines separated by newline characters) and M non-empty
\* next_step fields, extract_steps returns exactly N + M steps, numbered
\* 1..N+M in encounter order.
C7_StepsArePlanLinesPlusNextSteps ==
    (StepsExtracted /\ "planner_agent" \in DOMAIN data) =>
        /\ Len(planned_steps)
              = SumOver(PlanLineCount, data["planner_agent"])
                   + SumOver(NextStepCount, data["planner_agent"])
        /\ \A i \in 1..Len(planned_steps) : planned_steps[i].step_number = i

\* the type the priority order of the keyword groups gives a lowercased
\* description
HasAny(d, kws) == \E kw \in kws : Contains(d, kw)

NavigateWords == {KwNavigate, KwGoTo, KwOpen}
ClickWords    == {KwClick}
EnterWords    == {KwEnter, KwType, KwInput}
FilterWords   == {KwFilter, KwSelect}
AssertWords   == {KwAssert, KwVerify, KwConfirm, KwShouldSee}

KeywordGroups ==
    <<[type |-> "navigate",   words |-> NavigateWords],
      [type |-> "click",      words |-> ClickWords],
      [type |-> "enter_text", words |-> EnterWords],
      [type |-> "filter",     words |-> FilterWords],
      [type |-> "assert",     words |-> AssertWords]>>

\* C8: the action_type of a step is the type of the earliest keyword group,
\* in the order navigate, click, enter_text, filter, assert, that has a
\* keyword in the lowercased description, and unknown when no group has one.
C8_ActionTypeByFirstMatchingGroup ==
    \A i \in 1..Len(planned_steps) :
        LET d       == Lower(planned_steps[i].description)
            matches == {g \in 1..Len(KeywordGroups) : HasAny(d, KeywordGroups[g].words)}
        IN  IF matches = {}
            THEN planned_steps[i].action_type = "unknown"
            ELSE \E g \in matches :
                    /\ \A h \in matches : g <= h
                    /\ planned_steps[i].action_type = KeywordGroups[g].type

C8_Witness ==
    /\ Len(planned_steps) = 1
    /\ Contains(planned_steps[1].description, <<"C","L","I","C","K">>)
    /\ Contains(planned_steps[1].description, <<"O","p","e","n">>)
    /\ planned_steps[1].action_type = "navigate"

LogUnloadable == ~log_file.exists \/ ~log_file.valid_json

\* C9: constructing the parser on a missing file or on a file that is not
\* valid JSON raises and no steps are produced; for a valid JSON log without
\* the planner_agent key extract_steps returns an empty list without error.
C9_LoadErrorOrEmptySteps ==
    /\ LogUnloadable =>
          /\ pc \in {"load_log", "aborted"}
          /\ planned_steps = <<>>
          /\ pc = "aborted" => error \in {"FileNotFoundError", "JSONDecodeError"}
    /\ (~LogUnloadable /\ "planner_agent" \notin DOMAIN log_file.json
           /\ pc \notin {"load_log", "extract_steps"}) =>
          /\ planned_steps = <<>>
          /\ pc # "aborted"

C9_Witness ==
    /\ pc = "aborted"
    /\ error = "JSONDecodeError"
    /\ log_file.exists

VideoUnreadable ==
    \/ video_input.kind = "none"
    \/ \E i \in 1..Len(video_input.files) : ~video_input.files[i].opens

OutputUnparseable ==
    \/ ~output_file.exists
    \/ output_file.suffix \notin {".xml", ".html"}
    \/ output_file.suffix = ".xml" /\ ~output_file.well_formed

\* C10: when an input is missing or malformed (planning log, video, result
\* file) main does not abort: the producer yields its neutral default and
\* main writes both report files.
C10_NoAbortOnBadInput ==
    (LogUnloadable \/ VideoUnreadable \/ OutputUnparseable) =>
        /\ pc # "aborted"
        /\ pc = "exited" => json_written /\ md_written

\* C10 as amended: an unreadable video or a missing or unparseable result
\* file never aborts main: the analyzer yields no event for an unreadable
\* video, the comparator yields status unknown or error, main goes on to
\* generate_report and has written both files when it returns; main aborts
\* only in the planning log parser, before any other stage has run and
\* with no file written, or on the walk's recursion limit.
C10_OnlyTheLogParserAborts ==
    /\ LogUnloadable =>
          /\ pc \in {"load_log", "aborted"}
          /\ video_analysis = NoAnalysis /\ test_result = NoResult
          /\ ~json_written /\ ~md_written
    /\ (pc = "aborted" /\ error # "GraphRecursionError") =>
          /\ error \in {"FileNotFoundError", "JSONDecodeError", "AttributeError"}
          /\ video_analysis = NoAnalysis /\ test_result = NoResult /\ call = 0
    /\ (pc \notin {"load_log", "extract_steps", "analyze_video", "aborted"}
           /\ \A i \in 1..Len(video_input.files) : ~video_input.files[i].opens) =>
          /\ video_analysis.detected_events = <<>>
          /\ video_analysis.total_events = 0
    /\ (call > 0 /\ OutputUnparseable) => test_result.status \in {"unknown", "error"}
    /\ pc = "exited" => json_written /\ md_written

C10_Witness ==
    /\ pc = "exited"
    /\ json_written /\ md_written
    /\ VideoUnreadable
    /\ video_input.kind = "file"

\* OutputComparator(args.test_output) has returned
ComparatorReturned == call > 0

\* the .xml result file was parsed as a document
XmlParsed ==
    /\ ComparatorReturned
    /\ output_file.suffix = ".xml"
    /\ output_file.exists /\ output_file.well_formed

\* failure.get('message', '')
MessageAttribute(failure) ==
    IF "message" \in DOMAIN failure THEN failure["message"] ELSE ""

\* C11: for an .xml result file the first testcase element in document
\* order alone decides the status: with a failure child the status is failed
\* and the message is that failure's message attribute, without one the
\* status is passed and the message is empty.
C11_FirstTestcaseDecides ==
    (XmlParsed /\ output_file.testcases # <<>>) =>
        LET first == output_file.testcases[1]
        IN  IF first.failures # <<>>
            THEN /\ test_result.status = "failed"
                 /\ test_result.message = MessageAttribute(first.failures[1])
            ELSE /\ test_result.status = "passed"
                 /\ test_result.message = ""

C11_Witness ==
    /\ XmlParsed
    /\ Len(output_file.testcases) >= 2
    /\ output_file.testcases[1].failures = <<>>
    /\ output_file.testcases[2].failures # <<>>
    /\ test_result.status = "passed"

ResultStatuses == {"passed", "failed", "unknown", "error"}

\* C12: OutputComparator never raises; a result path whose extension is
\* neither .xml nor .html (or that has none) yields status unknown with an
\* explanatory message and the file is never opened; the status is always
\* one of passed, failed, unknown, error.
C12_UnsupportedExtensionIsUnknown ==
    /\ (pc = "generate_report" /\ call = 1) => error = ""
    /\ ComparatorReturned =>
          /\ test_result.status \in ResultStatuses
          /\ output_file.suffix \notin {".xml", ".html"} =>
                /\ test_result.status = "unknown"
                /\ "message" \in DOMAIN test_result
                /\ test_result.message # ""
                /\ ~output_opened

C12_Witness ==
    /\ ComparatorReturned
    /\ output_file.suffix = ".txt"
    /\ output_file.exists
    /\ output_file.texts # <<>>
    /\ test_result.status = "unknown"
    /\ ~output_opened

\* C13: for an .xml result file, a well-formed document with no testcase
\* element yields status unknown, a missing file or one that is not XML
\* yields status error with the exception's text as message, and the
\* comparator returns in both cases.
C13_XmlUnknownOrError ==
    /\ (pc = "generate_report" /\ call = 1 /\ output_file.suffix = ".xml") =>
          error = ""
    /\ (XmlParsed /\ output_file.testcases = <<>>) =>
          test_result.status = "unknown"
    /\ (ComparatorReturned /\ output_file.suffix = ".xml" /\ ~output_file.exists) =>
          /\ test_result.status = "error"
          /\ test_result.message = MissingFileText
    /\ (ComparatorReturned /\ output_file.suffix = ".xml"
           /\ output_file.exists /\ ~output_file.well_formed) =>
          /\ test_result.status = "error"
          /\ test_result.message = ParseErrorText

C13_Witness ==
    /\ pc = "exited"
    /\ output_file.suffix = ".xml"
    /\ ~output_file.exists
    /\ test_result.status = "error"
    /\ test_result.message = MissingFileText

\* the .html result file was read
HtmlParsed ==
    /\ ComparatorReturned
    /\ output_file.suffix = ".html"
    /\ output_file.exists

\* some text node of the document contains kw
HasText(kw) ==
    \E i \in 1..Len(output_file.texts) : Contains(output_file.texts[i], kw)

\* C14: for an .html result file FAILED is looked for before PASSED: text
\* with FAILED yields failed whether or not PASSED occurs too, text with
\* PASSED and no FAILED yields passed, text with neither yields unknown.
C14_FailedBeforePassed ==
    HtmlParsed =>
        /\ HasText(KwFAILED) => test_result.status = "failed"
        /\ (HasText(KwPASSED) /\ ~HasText(KwFAILED)) => test_result.status = "passed"
        /\ (~HasText(KwPASSED) /\ ~HasText(KwFAILED)) => test_result.status = "unknown"

C14_Witness ==
    /\ HtmlParsed
    /\ Len(output_file.texts) = 2
    /\ Contains(output_file.texts[1], KwPASSED)
    /\ Contains(output_file.texts[2], KwFAILED)
    /\ test_result.status = "failed"

\* the videos analyze has finished with
Analysed == 1..video_idx

\* the number of frames of videos[k] the loop handles before it ends or raises
FramesHandled(k) ==
    LET video == videos[k]
    IN  IF ~video.opens \/ video_input.frame_skip = 0 THEN 0
        ELSE IF video.raise_at \in 0..(Len(video.frames) - 1) THEN video.raise_at
        ELSE Len(video.frames)

\* the sampled frames of videos[k]: the handled indices that are multiples
\* of frame_skip
Sampled(k) ==
    {i \in 0..(FramesHandled(k) - 1) : i % video_input.frame_skip = 0}

\* mean absolute difference of sampled frame i from the sampled frame before
Difference(k, i) ==
    Abs(videos[k].frames[i + 1] - videos[k].frames[i + 1 - video_input.frame_skip])

\* the sampled frames, the first excepted, that differ from the previously
\* sampled frame by more than the threshold
ChangedFrames(k) ==
    {i \in Sampled(k) : i # 0 /\ Difference(k, i) > 30}

\* where the events of videos[k] begin in all_events
RECURSIVE EventsBefore(_)
EventsBefore(k) ==
    IF k <= 1 THEN 0
    ELSE EventsBefore(k - 1) + Cardinality(ChangedFrames(k - 1))

\* the j-th smallest element of a set of numbers
RECURSIVE Nth(_, _)
Nth(S, j) ==
    LET least == CHOOSE x \in S : \A y \in S : x <= y
    IN  IF j = 1 THEN least ELSE Nth(S \ {least}, j - 1)

\* C15: of one video only the frames whose index is a multiple of
\* frame_skip are sampled, and a scene_change event is emitted for a sampled
\* frame exactly when it is not the first sampled one and differs from the
\* previously sampled frame by strictly more than 30: the events of a video
\* are as many as those frames, one for each in frame order, and none when
\* every sampled frame is within 30 of its predecessor.
C15_EventsAreChangedSampledFrames ==
    /\ Len(all_events) = EventsBefore(video_idx + 1)
    /\ \A k \in Analysed :
          \A j \in 1..Cardinality(ChangedFrames(k)) :
              LET i == Nth(ChangedFrames(k), j)
                  e == all_events[EventsBefore(k) + j]
              IN  /\ e.type = "scene_change"
                  /\ e.video = videos[k].name
                  /\ e.timestamp = Timestamp(i, videos[k].fps)

C15_Witness ==
    /\ pc = "exited"
    /\ video_input.frame_skip = 2
    /\ Len(videos) = 1
    /\ Len(videos[1].frames) = 3
    /\ Abs(videos[1].frames[2] - videos[1].frames[1]) > 30
    /\ Abs(videos[1].frames[3] - videos[1].frames[1]) = 30
    /\ video_analysis.total_events = 0

\* analyze has handled its only video, which opened and raised nothing
OneVideoAnalysed ==
    /\ Len(videos) = 1 /\ video_idx = 1
    /\ FramesHandled(1) = Len(videos[1].frames)

\* videos[k] shows one level up to frame t - 1 and another, more than the
\* threshold away, from frame t on
SingleTransitionAt(k, t) ==
    LET frames == videos[k].frames
    IN  /\ t \in 1..(Len(frames) - 1)
        /\ \A i \in 1..t : frames[i] = frames[1]
        /\ \A i \in (t + 1)..Len(frames) : frames[i] = frames[t + 1]
        /\ Abs(frames[t + 1] - frames[1]) > 30

\* the first sampled frame of videos[k] at or after frame t
FirstSampleFrom(k, t) ==
    CHOOSE i \in Sampled(k) : i >= t /\ \A j \in Sampled(k) : j >= t => i <= j

\* the frame the j-th event of videos[k] was detected at
EventFrame(k, j) == Nth(ChangedFrames(k), j)

\* what C16 says of confidence, and of a video with a single transition
\* once its frame's timestamp is settled by TimeOk(timestamp, frame, fps)
EventsCarry(TimeOk(_, _, _)) ==
    /\ \A k \in Analysed :
          \A j \in 1..Cardinality(ChangedFrames(k)) :
              LET i == EventFrame(k, j)
                  e == all_events[EventsBefore(k) + j]
              IN  /\ TimeOk(e.timestamp, i, videos[k].fps)
                  /\ e.timestamp >= 0
                  /\ e.confidence = Min(Difference(k, i), 100)
                  /\ e.confidence \in 0..100
    /\ OneVideoAnalysed =>
          \A t \in 1..(Len(videos[1].frames) - 1) :
              (SingleTransitionAt(1, t) /\ \E i \in Sampled(1) : i >= t) =>
                  /\ Len(all_events) = 1
                  /\ TimeOk(all_events[1].timestamp, FirstSampleFrom(1, t),
                            videos[1].fps)

\* timestamp (hundredths of a second) is exactly frame_idx / fps
ExactTime(timestamp, frame_idx, fps) ==
    IF fps > 0 THEN timestamp * fps = 100 * frame_idx ELSE timestamp = 0

\* timestamp is the hundredth of a second nearest to frame_idx / fps
RoundedTime(timestamp, frame_idx, fps) ==
    IF fps > 0
    THEN 2 * Abs(timestamp * fps - 100 * frame_idx) <= fps
    ELSE timestamp = 0

\* C16: every event has timestamp equal to frame_index / fps of the sampled
\* frame the change was detected at (0 when fps is unreported), timestamp
\* >= 0 and confidence = min(change_score/100, 1.0) in [0, 1]; a video with
\* a single abrupt transition between two sample points yields exactly one
\* event, at the first sampled frame after the transition.
C16_TimestampIsFrameOverFps == EventsCarry(ExactTime)

\* C16 as amended: the timestamp is frame_index / fps rounded to two
\* decimals (0 when fps is unreported), so it is within half a hundredth of
\* a second of frame_index / fps; the rest is as stated.
C16_TimestampIsRoundedFrameOverFps == EventsCarry(RoundedTime)

C16_Witness ==
    /\ pc = "exited"
    /\ OneVideoAnalysed
    /\ videos[1].fps = 3
    /\ video_input.frame_skip = 2
    /\ SingleTransitionAt(1, 1)
    /\ video_analysis.total_events = 1
    /\ video_analysis.detected_events[1].timestamp = 67

\* VideoAnalyzer.analyze is running
Analysing == pc \in {"analyze_video", "next_video", "read_frames"}

\* VideoAnalyzer.analyze has returned
AnalyzeReturned ==
    /\ pc \notin {"load_log", "extract_steps"}
    /\ ~Analysing
    /\ ~(pc = "aborted" /\ call = 0)

\* C17: analyze never raises because of one video: a video that does not
\* open is skipped, one whose analysis throws at some frame is cut short,
\* and every other video of the set is still analysed, its events being in
\* detected_events.
C17_OneVideoNeverStopsAnalyze ==
    /\ Analysing => error = "" /\ exit_code = -1
    /\ pc = "aborted" => ~(call = 0 /\ videos # <<>>)
    /\ AnalyzeReturned =>
          /\ video_idx = Len(videos)
          /\ video_analysis.video_count = Len(videos)
          /\ video_analysis.total_events = EventsBefore(Len(videos) + 1)
          /\ \A k \in 1..Len(videos) :
                \A j \in 1..Cardinality(ChangedFrames(k)) :
                    video_analysis.detected_events[EventsBefore(k) + j].video
                        = videos[k].name

C17_Witness ==
    /\ pc = "exited"
    /\ Len(videos) = 2
    /\ videos[1].raise_at = 2
    /\ videos[2].raise_at = -1
    /\ video_analysis.total_events = 3
    /\ video_analysis.detected_events[1].video = videos[1].name
    /\ video_analysis.detected_events[3].video = videos[2].name

\* C18: video streams are opened and released one at a time: at most one
\* decode stream is open at any moment, and every stream that was opened
\* has been released when the next video is opened and when analyze has
\* returned, whether the frame loop ended normally or with an exception.
C18_OneStreamAtATime ==
    /\ Cardinality(open_streams) <= 1
    /\ pc = "next_video" => open_streams = {}
    /\ AnalyzeReturned => open_streams = {}

\* planned steps as extract_steps returned them, before any annotation
Plain(steps) ==
    [i \in 1..Len(steps) |->
        [f \in DOMAIN steps[i] \ {"llm_analysis"} |-> steps[i][f]]]

\* the final state of a walk of the graph that has no LLM, from node n
RECURSIVE WalkWithoutLlm(_, _, _)
WalkWithoutLlm(st, n, k) ==
    IF n = "END" \/ k >= RecursionLimit THEN st
    ELSE IF n = "initialize"
    THEN WalkWithoutLlm(
             ApplyUpdate(st, [InitialState EXCEPT
                                 !.planned_steps = Plain(planned_steps)]),
             "analyze_step", k + 1)
    ELSE IF n = "analyze_step"
    THEN LET next == ApplyUpdate(st, AnalyzeStepUpdate(st))
         IN  WalkWithoutLlm(next,
                 IF ShouldContinueAnalysis(next) = "compare"
                 THEN "compare_with_video" ELSE "finalize_report", k + 1)
    ELSE IF n = "compare_with_video"
    THEN WalkWithoutLlm(ApplyUpdate(st, CompareWithVideoUpdate(st)),
                        "determine_deviation", k + 1)
    ELSE IF n = "determine_deviation"
    THEN WalkWithoutLlm(ApplyUpdate(st, DetermineDeviationUpdate(st)),
                        "analyze_step", k + 1)
    ELSE WalkWithoutLlm(ApplyUpdate(st, FinalizeReportUpdate(st)), "END", k + 1)

\* summary and steps of the report a reporter without credential produces
\* for the same planned steps, video analysis and test result
ReportWithoutLlm ==
    LET final_state ==
            WalkWithoutLlm(
                ApplyUpdate(EmptyChannels,
                            [InitialState EXCEPT
                                !.planned_steps = Plain(planned_steps)]),
                "initialize", 0)
    IN  [summary |-> final_state.summary,
         steps   |-> [i \in 1..Len(planned_steps) |->
                         StepResult(Plain(planned_steps)[i],
                                    final_state.deviations)]]

\* C19: the LLM annotation never affects the report: with an LLM
\* configured, whatever text it returns and also when the call fails, every
\* report has the summary and the steps of the report produced without
\* credential from the same planned steps, video analysis and test result.
C19_LlmNeverAffectsReport ==
    \A r \in ReturnedReports :
        /\ r.summary = ReportWithoutLlm.summary
        /\ r.steps = ReportWithoutLlm.steps

C19_Witness ==
    /\ pc = "exited"
    /\ llm # "none"
    /\ Len(planned_steps) >= 2
    /\ planned_steps[1].llm_analysis \in LlmTexts
    /\ planned_steps[2].llm_analysis = ""
    /\ report.summary.deviation_count > 0

\* C20: the JSON report and the markdown report of one run carry the same
\* summary values (total steps, observed steps, deviations, status), though
\* format_markdown runs generate_report a second time.
C20_MarkdownSummaryIsJsonSummary ==
    md_written =>
        MarkdownSummary(md_report)
            = <<report.summary.total_steps, report.summary.observed_steps,
                report.summary.deviation_count, report.summary.status>>

C20_Witness ==
    /\ pc = "exited"
    /\ json_written /\ md_written
    /\ Len(planned_steps) >= 2
    /\ report.summary.deviation_count > 0
    /\ md_report.summary.deviation_count > 0

\* the events analyze collects from files, one after the other
RECURSIVE EventsOfFiles(_, _)
EventsOfFiles(files, frame_skip) ==
    IF files = <<>> THEN <<>>
    ELSE (IF Head(files).opens
          THEN FrameLoop(Head(files), frame_skip, 0, -1, <<>>).events
          ELSE <<>>) \o EventsOfFiles(Tail(files), frame_skip)

\* what analyze returns for a video input when nothing else runs
AnalysisOf(v) ==
    LET events == EventsOfFiles(GetVideoFiles(v), v.frame_skip)
    IN  [video_count     |-> Len(GetVideoFiles(v)),
         detected_events |-> events,
         total_events    |-> Len(events)]

\* the three producers have returned
ProducersReturned ==
    \/ pc \in {"generate_report", "walk", "write_json", "write_md", "return",
               "exited"}
    \/ pc = "aborted" /\ error = "GraphRecursionError"

\* each output is what its producer makes of its own input
OutputsByOwnInput ==
    ProducersReturned =>
        /\ planned_steps = ExtractSteps(log_file.json).steps
        /\ video_analysis = AnalysisOf(video_input)
        /\ test_result = ParseOutput(output_file)
        /\ \A r \in ReturnedReports :
              /\ r.summary = ReportWithoutLlm.summary
              /\ r.steps = ReportWithoutLlm.steps
              /\ r.test_result = ParseOutput(output_file)

\* a step of one producer leaves alone what the other two work on
ProducerStepKeepsOthers ==
    /\ pc \in {"load_log", "extract_steps"} =>
          UNCHANGED <<videos, video_idx, all_events, video_analysis,
                      test_result, output_opened>>
    /\ pc \in {"analyze_video", "next_video", "read_frames"} =>
          UNCHANGED <<data, planned_steps, test_result, output_opened>>
    /\ pc = "compare_output" =>
          UNCHANGED <<data, planned_steps, videos, video_idx, all_events,
                      video_analysis>>

Malformed(m) ==
    /\ IsAssistantDict(m)
    /\ \/ "plan" \in DOMAIN m["content"].f /\ m["content"].f["plan"].t # "str"
       \/ /\ "next_step" \in DOMAIN m["content"].f
          /\ m["content"].f["next_step"].t # "str"
          /\ Truthy(m["content"].f["next_step"])

\* C22: a malformed assistant message (a plan that is not a string, a
\* next_step that is not a string) contributes no steps and does not keep
\* extract_steps from returning the steps of the other messages.
C22_MalformedMessageIsIsolated ==
    /\ ~(pc = "aborted" /\ error = "AttributeError")
    /\ (StepsExtracted /\ "planner_agent" \in DOMAIN data) =>
          planned_steps
              = ExtractSteps([planner_agent |->
                    SelectSeq(data["planner_agent"],
                              LAMBDA m : ~Malformed(m))]).steps

\* the video path does not exist, or is a directory without a file of an
\* allow-listed extension
NoVideoFile ==
    \/ video_input.kind = "none"
    \/ /\ video_input.kind = "dir"
       /\ \A i \in 1..Len(video_input.files) :
             video_input.files[i].suffix \notin {".webm", ".mp4", ".avi", ".mov"}

\* C23: empty inputs are legitimate: with zero planned steps, whatever the
\* events, the report has total_steps = 0, observed_steps = 0,
\* deviation_count = 0, status "No deviations detected" and no steps, and
\* main exits with code 0; with a video path that does not exist or is a
\* directory without an allow-listed video file the analyzer returns
\* video_count = 0, no events and total_events = 0.
C23_EmptyInputsAreLegitimate ==
    /\ (StepsExtracted /\ planned_steps = <<>>) =>
          /\ pc # "aborted"
          /\ pc = "exited" => exit_code = 0
          /\ \A r \in ReturnedReports :
                /\ r.summary = [total_steps     |-> 0,
                                observed_steps  |-> 0,
                                deviation_count |-> 0,
                                status          |-> <<"No deviations detected">>]
                /\ r.steps = <<>>
    /\ (AnalyzeReturned /\ NoVideoFile) =>
          video_analysis = [video_count     |-> 0,
                            detected_events |-> <<>>,
                            total_events    |-> 0]

C23_Witness ==
    /\ pc = "exited"
    /\ log_file.exists /\ log_file.valid_json
    /\ planned_steps = <<>>
    /\ video_analysis.total_events > 0
    /\ report.steps = <<>>
    /\ exit_code = 0

\* C24: in every report 0 <= observed_steps <= total_steps and
\* 0 <= deviation_count <= total_steps; and when the video analysis holds no
\* scene_change event and there are n >= 1 planned steps, observed_steps = 0
\* and deviation_count = n.
C24_CountsWithinTotal ==
    \A r \in ReturnedReports :
        /\ 0 <= r.summary.observed_steps
        /\ r.summary.observed_steps <= r.summary.total_steps
        /\ 0 <= r.summary.deviation_count
        /\ r.summary.deviation_count <= r.summary.total_steps
        /\ (SceneChangeCount(video_analysis.detected_events) = 0
              /\ Len(planned_steps) >= 1) =>
              /\ r.summary.observed_steps = 0
              /\ r.summary.deviation_count = Len(planned_steps)

\* the positions of the scene_change events of a list that have fewer than
\* two scene_change events before them
LeadingSceneChanges(events) ==
    LET scene == {j \in 1..Len(events) : events[j].type = "scene_change"}
    IN  {j \in scene : Cardinality({k \in scene : k < j}) < 2}

\* seq is the events at the positions LeadingSceneChanges, in list order
IsLeadingSceneChanges(seq, events) ==
    LET lead == LeadingSceneChanges(events)
    IN  /\ Len(seq) = Cardinality(lead)
        /\ \A j \in lead :
              seq[Cardinality({k \in lead : k < j}) + 1] = events[j]

\* C25: the events related to a step are the first (at most two)
\* scene_change events of the event list, in list order, whatever the step's
\* description, action_type or target; so every step of one run gets the
\* same events, and the steps of a report are all Observed or all Deviation.
C25_SameLeadingEventsForEveryStep ==
    /\ "observations" \in DOMAIN state =>
          \A i \in 1..Len(state.observations) :
              /\ IsLeadingSceneChanges(state.observations[i].relevant_events,
                                       video_analysis.detected_events)
              /\ state.observations[i].event_count
                    = Cardinality(LeadingSceneChanges(video_analysis.detected_events))
    /\ \A r \in ReturnedReports :
          \/ \A i \in 1..Len(r.steps) : r.steps[i].result = "Observed"
          \/ \A i \in 1..Len(r.steps) : r.steps[i].result = "Deviation"

C25_Witness ==
    /\ "observations" \in DOMAIN state
    /\ Len(state.observations) >= 2
    /\ state.observations[1].step_number # state.observations[2].step_number
    /\ video_analysis.total_events >= 3
    /\ Len(state.observations[2].relevant_events) = 2
    /\ state.observations[2].relevant_events[2]
          # video_analysis.detected_events[video_analysis.total_events]

\* a walk is under way and its channels are written
Walking == pc = "walk" /\ "current_step_index" \in DOMAIN state

\* the steps compare_with_video has visited
Visited ==
    state.current_step_index + (IF node = "determine_deviation" THEN 1 ELSE 0)

IndexWithinSteps ==
    Walking =>
        /\ node = "initialize" => state.current_step_index = 0
        /\ 0 <= state.current_step_index
        /\ state.current_step_index <= Len(state.planned_steps)
        /\ node \in {"compare_with_video", "determine_deviation"} =>
              state.current_step_index < Len(state.planned_steps)

OneObservationPerVisitedStep ==
    Walking =>
        /\ Len(state.observations) = Visited
        /\ \A i \in 1..Len(state.observations) :
              state.observations[i].step_number
                 = state.planned_steps[i].step_number

\* a node of the walk runs
NodeRuns == Walking /\ pc' = "walk" /\ supersteps' = supersteps + 1

IndexMovesInDetermineDeviation ==
    NodeRuns =>
        state'.current_step_index =
            IF node = "determine_deviation"
            THEN state.current_step_index + 1
            ELSE state.current_step_index

\* C26: during the walk current_step_index starts at 0, grows by exactly 1
\* in determine_deviation and nowhere else, and never exceeds the number of
\* planned steps; compare_with_video and determine_deviation run only with
\* current_step_index below that number; the planned steps are visited once
\* each, in order, and the observations hold exactly one entry per visited
\* step.
C26_IndexWalksTheStepsOnce ==
    /\ [](IndexWithinSteps /\ OneObservationPerVisitedStep)
    /\ [][IndexMovesInDetermineDeviation]_vars

\* the number of steps extract_steps has after the first k messages
StepsAfter(k) ==
    Len(ExtractSteps([planner_agent |-> SubSeq(data["planner_agent"], 1, k)]).steps)

\* the positions in planned_steps of the steps of message k
StepsOfMessage(k) == (StepsAfter(k - 1) + 1)..StepsAfter(k)

\* extract_steps has just returned to main
ExtractStepsReturned ==
    /\ pc = After("parser") /\ call = 0
    /\ StepsExtracted /\ "planner_agent" \in DOMAIN data

\* C27: within one assistant message the steps of its plan precede the step
\* of its next_step; is_next_action is true exactly for the step of a
\* non-empty next_step and false for every step of a plan line; a message
\* whose role is not assistant or whose content is not an object
\* contributes no step and uses no step number.
C27_PlanStepsThenNextStep ==
    ExtractStepsReturned =>
        /\ \A i \in 1..Len(planned_steps) : planned_steps[i].step_number = i
        /\ StepsAfter(Len(data["planner_agent"])) = Len(planned_steps)
        /\ \A k \in 1..Len(data["planner_agent"]) :
              LET m    == data["planner_agent"][k]
                  last == StepsAfter(k)
              IN  /\ ~IsAssistantDict(m) => StepsOfMessage(k) = {}
                  /\ \A i \in StepsOfMessage(k) :
                        planned_steps[i].is_next_action
                           = (i = last /\ NextStepCount(m) = 1)
                  /\ NextStepCount(m) = 1 =>
                        /\ StepsOfMessage(k) # {}
                        /\ planned_steps[last].description
                              = m["content"].f["next_step"].s

C27_Witness ==
    /\ ExtractStepsReturned
    /\ \E k \in 1..Len(data["planner_agent"]) :
          /\ NextStepCount(data["planner_agent"][k]) = 1
          /\ Cardinality(StepsOfMessage(k)) >= 2
    /\ \E k \in 1..Len(data["planner_agent"]) :
          /\ ~IsAssistantDict(data["planner_agent"][k])
          /\ StepsAfter(k) > 0
          /\ StepsAfter(k) < Len(planned_steps)

\* the files the video path resolves to: the file itself, or the files of
\* the directory with a video extension
ResolvedCount ==
    IF video_input.kind = "file" THEN 1
    ELSE IF video_input.kind = "dir"
    THEN Cardinality({i \in 1..Len(video_input.files) :
            video_input.files[i].suffix \in {".webm", ".mp4", ".avi", ".mov"}})
    ELSE 0

\* the events of the k-th resolved file in the result of analyze
EventsOfVideo(k) ==
    SubSeq(video_analysis.detected_events,
           EventsBefore(k) + 1, EventsBefore(k + 1))

\* C28: in the result of analyze total_events is the length of
\* detected_events and video_count the number of resolved video files,
\* those that failed to open or to be analysed included; detected_events is
\* the events of the first file, then those of the second, and so on in the
\* order the files are iterated, and within one file the timestamps never
\* decrease.
C28_EventsConcatenatedPerVideo ==
    AnalyzeReturned =>
        /\ video_analysis.total_events = Len(video_analysis.detected_events)
        /\ video_analysis.video_count = ResolvedCount
        /\ video_analysis.video_count = Len(videos)
        /\ video_analysis.total_events = EventsBefore(Len(videos) + 1)
        /\ \A k \in 1..Len(videos) :
              LET events == EventsOfVideo(k)
              IN  /\ \A j \in 1..Len(events) : events[j].video = videos[k].name
                  /\ \A i, j \in 1..Len(events) :
                        i < j => events[i].timestamp <= events[j].timestamp

C28_Witness ==
    /\ AnalyzeReturned
    /\ pc = "exited"
    /\ video_analysis.video_count = 4
    /\ \E k \in 1..Len(videos) : ~videos[k].opens
    /\ \E k \in 1..Len(videos) : videos[k].raise_at >= 0
    /\ Len(EventsOfVideo(1)) >= 1
    /\ Len(EventsOfVideo(3)) >= 1
    /\ video_analysis.total_events = 2

\* the indicator of the confidence cell the thresholds give
Indicator(confidence) ==
    IF confidence >= 80 THEN "green"
    ELSE IF confidence >= 60 THEN "yellow"
    ELSE IF confidence > 0 THEN "red"
    ELSE "white"

\* cell shows the first characters of description, at most DescriptionWidth
\* of them, with a space for each line break, and then three dots
IsCutDescription(cell, description) ==
    LET kept == IF Len(description) < DescriptionWidth
                THEN Len(description) ELSE DescriptionWidth
    IN  /\ Len(cell) = kept + 3
        /\ \A j \in 1..kept :
              cell[j] = IF description[j] \in {NL, CR} THEN " " ELSE description[j]
        /\ \A j \in (kept + 1)..(kept + 3) : cell[j] = "."

\* C29: the table of the markdown rendering has one row per entry of
\* report.steps, in order; the description of a row has its line breaks
\* replaced, is cut to at most 50 characters and is followed by "..." also
\* when nothing was cut; the confidence cell is green from 0.8, yellow from
\* 0.6 to below 0.8, red above 0 to below 0.6 and "N/A" for 0, less, or no
\* confidence; so a Deviation row (0.8) is green and an Observed row (0.7)
\* yellow.
C29_OneRowPerStep ==
    /\ md_written =>
          /\ Len(md_rows) = Len(md_report.steps)
          /\ \A i \in 1..Len(md_rows) :
                LET row  == md_rows[i]
                    step == md_report.steps[i]
                IN  /\ row.step_number = step.step_number
                    /\ row.result = step.result
                    /\ row.notes = step.notes
                    /\ IsCutDescription(row.description, step.description)
                    /\ row.confidence[1] = Indicator(step.confidence)
                    /\ step.result = "Deviation" =>
                          row.confidence = <<"green", 80, "%">>
                    /\ step.result = "Observed" =>
                          row.confidence = <<"yellow", 70, "%">>
    /\ \A c \in (0 - 1)..100 :
          /\ ConfidenceDisplay(c)[1] = Indicator(c)
          /\ ConfidenceDisplay(c)[2] = IF c > 0 THEN c ELSE "N/A"
    /\ MarkdownRow([step_number |-> 1, description |-> <<>>,
                    result |-> "Observed", notes |-> ""]).confidence
          = <<"white", "N/A">>

C29_Witness ==
    /\ md_written
    /\ Len(md_rows) = 1
    /\ Len(md_report.steps[1].description) > DescriptionWidth
    /\ md_report.steps[1].description[5] = CR
    /\ md_rows[1].description[5] = " "
    /\ Len(md_rows[1].description) = DescriptionWidth + 3
    /\ md_rows[1].result = "Deviation"

\* generate_report is running or has run
Reporting == pc \in {"generate_report", "walk", "write_json", "write_md", "return"}

ReportCarriesInputs ==
    /\ \A r \in ReturnedReports :
          /\ r.test_result = test_result
          /\ r.video_analysis
                = [video_count  |-> video_analysis.video_count,
                   total_events |-> video_analysis.total_events]
    /\ "summary" \in DOMAIN md_report => md_report = report
    /\ (Reporting /\ "planner_agent" \in DOMAIN data) =>
          planned_steps = ExtractSteps(data).steps

ReportingKeepsInputs ==
    Reporting =>
        /\ planned_steps' = planned_steps
        /\ video_analysis' = video_analysis
        /\ test_result' = test_result

\* C30: without an LLM generate_report is repeatable and leaves its inputs
\* alone: the two calls of one run return equal reports, no step of a
\* generate_report changes the planned steps, the event list or the test
\* result, and a report holds the test result as it was given and, as
\* video_analysis, exactly the analyzer's video_count and total_events.
C30_GenerateReportIsRepeatable ==
    /\ []ReportCarriesInputs
    /\ [][ReportingKeepsInputs]_vars

C30_Witness ==
    /\ pc = "exited"
    /\ "summary" \in DOMAIN md_report
    /\ md_report = report
    /\ Len(report.steps) >= 2
    /\ video_analysis.total_events >= 1
    /\ report.video_analysis.total_events = video_analysis.total_events
    /\ report.test_result.status = "failed"

====
